---- MODULE Spec2Model ----
(***************************************************************************)
(* ASRA ground control station: the multi-drone registry (DroneManager,    *)
(* drone_manager.py), the per-drone telemetry poller (SimpleController,    *)
(* simple_controller.py) and the MAVLink link worker (MavlinkWorker,       *)
(* mavlink_worker.py).                                                     *)
(*                                                                         *)
(* SpecReg  : the registry, its workers (one loop iteration part per       *)
(*            step) and the poller, all registry calls on the UI thread.   *)
(* SpecLink : one MavlinkWorker in detail: the background loop of run()    *)
(*            step by step, the caller-thread calls, the vehicle and time. *)
(***************************************************************************)
EXTENDS Integers, Sequences, FiniteSets, TLC

\* ----------------------------------------------------------------- bounds
MaxDroneNumber == 3      \* add_drone is not offered once drone_<n> would exceed this
MaxCtl == 1              \* requests waiting in a worker's _control_queue
MaxProduced == 4         \* events the thread of run() puts on _out_queue while get_updates is followed
MaxThreshold == 4        \* largest cache_cleanup_threshold configured
MaxRows == 4             \* rows of the tiles table when cleanup_old_tiles is called
MaxPosted == 2           \* tile_ready calls waiting in the UI thread's event loop
MaxOut == 0              \* events waiting in a worker's _out_queue when a loop iteration starts

\* ------------------------------------------------------ program constants
max_drones == 2                       \* DroneManager(max_drones=2)
NumColors == 6                        \* len(DEFAULT_COLORS)
HEARTBEAT_TIMEOUT == 3                \* seconds (3.0)
CONNECTION_TIMEOUT == 10              \* seconds (10.0)
HEARTBEAT_CHECK_INTERVAL_SEC == 1     \* seconds (1.0)
COMMAND_ACK_TIMEOUT_SEC == 3          \* seconds
FORCE_ARM_MAGIC == 21196              \* param2 of a forced arm

\* Return values of the registry calls, as <<tag, number>>.
RetNone == <<"None", 0>>
RetId(n) == <<"drone_id", n>>
RetBool(b) == <<"bool", IF b THEN 1 ELSE 0>>

\* ------------------------------------------------------------- the events
\* Every event is a pair <<kind, payload>> as put on _out_queue.
EvConnecting   == <<"status", "Connecting to device @ baud">>
EvConnected    == <<"status", "Connected">>
EvDisconnected == <<"status", "Disconnected">>
EvNoDevice     == <<"error", "No device configured">>
EvConnFailed   == <<"error", "Connection failed">>
EvCloseError   == <<"error", "Error closing connection">>
EvHbTimeout    == <<"error", "Heartbeat timeout - connection lost">>
EvRecvError    == <<"error", "Receive error">>
EvNotConnected == <<"error", "Not connected">>
EvSendingArm   == <<"status", "Sending Arm command...">>
EvSendFailed   == <<"error", "Failed to send Arm/Disarm command">>
EvAccepted     == <<"status", "Arm/Disarm command accepted by FCU.">>
EvRejected     == <<"error", "Arm/Disarm command rejected">>
EvNoAck        == <<"error", "No acknowledgment for Arm/Disarm command.">>
EvAckRecvFailed == <<"error", "Failed to receive acknowledgment for Arm/Disarm command">>
\* The commands of a MavlinkWorker (lines 74-87), by the handler run() gives them.
ArmRequests == {"arm_disarm", "force_arm"}
SendRequests == {"set_mode", "mission_start", "abort_land"}

\* "Connected" in status_text / "Disconnected" in status_text: Python's
\* case-sensitive substring test, tabulated over the status texts the worker
\* produces ("Disconnected" holds "connected", not "Connected").
HasConnected(text) == text \in {"Connected"}
HasDisconnected(text) == text \in {"Disconnected"}

VARIABLES
    drones,             \* DroneManager.drones: drone number n (for "drone_<n>") -> DroneConnection
    next_drone_number,  \* DroneManager._next_drone_number
    workers,            \* the MavlinkWorker each registered DroneConnection owns
    retired,            \* the worker of the drone removed last, as remove_drone left it
    last_call,          \* the registry call made last
    ret,                \* what that call returned
    \* ---- one MavlinkWorker in detail (SpecLink) ----
    pc,                 \* where the thread of run() stands
    running,            \* self._running
    device,             \* self._device
    conn,               \* self._conn is a connection object (TRUE) or None (FALSE)
    connected,          \* self._connected
    is_armed,           \* self._is_armed
    hb_elapsed,         \* time.time() - self._last_heartbeat, in seconds, capped
    check_elapsed,      \* time.time() - last_heartbeat_check, in seconds, capped
    control_queue,      \* self._control_queue
    out_queue,          \* self._out_queue
    cur,                \* the request run() is executing, with conn and connected as it found them
    cmd_events,         \* the events that request has put on _out_queue
    tx,                 \* the commands that request has sent to the vehicle
    ack_result,         \* how that request's wait for COMMAND_ACK ended, and after how long
    stop_pc,            \* "done" once stop() has been called
    rx,                 \* messages the connection has received and run() has not read
    veh_alive,          \* the vehicle is sending heartbeats (one a second)
    veh_timely,         \* since the link connected, no second passed without a heartbeat sent
    \* ---- get_updates() against the thread of run() (SpecQueue) ----
    produced,           \* every event put on _out_queue so far, in order
    delivered,          \* every event get_updates() has returned so far, in order
    gu_updates,         \* the local list 'updates' of the get_updates() call under way
    gu_pc,              \* where that call stands
    \* ---- TileDownloadManager (SpecTiles) ----
    tile_db,            \* keys with a row in the tiles table of PersistentTileCache
    download_queue,     \* self.download_queue
    active_downloads,   \* self.active_downloads
    tm_running,         \* self.running
    executor_shutdown,  \* self.executor.shutdown() has been called
    run_pc,             \* where the thread of TileDownloadManager.run() stands
    popped,             \* the key run() has taken off the queue and not yet submitted
    fetching,           \* key -> futures submitted whose _download_tile has not returned
    completing,         \* key -> futures finished whose done-callback has not run
    fetch_stage,        \* key -> where the _download_tile of that key stands: "get", "store", "emit"
    req,                \* the request_tile call between its cache lookup and its locked part
    last_req,           \* the request_tile call finished last: key, lookup result, emits, enqueued
    tile_ready,         \* the tile_ready signal emitted last: key and emitter
    \* ---- ProfessionalGCSMap's in-memory tile cache (SpecCache) ----
    tile_cache,         \* self.tile_cache, an OrderedDict: its keys, oldest first
    cache_cleanup_threshold,  \* self.cache_cleanup_threshold
    timer_left,         \* self.tile_update_timer: ticks until its timeout, -1 when it is not active
    unseen_age,         \* ticks since the oldest insert no update() has followed yet, -1 when none
    \* ---- _process_message on telemetry messages (SpecMessages) ----
    msg_in,             \* the message _process_message handled last
    msg_events,         \* the events that call put on _out_queue
    \* ---- PersistentTileCache.cleanup_old_tiles (SpecStore) ----
    db_rows,            \* the tiles table: row id -> <<timestamp, size>>
    last_cleanup,       \* the cleanup_old_tiles call made last: <<cutoff_time, max_size_bytes>>
    \* ---- the locks of the tile pipeline (SpecLocks) ----
    cache_lock,         \* the thread that holds ProfessionalGCSMap.cache_lock, or "none"
    lock,               \* the thread that holds TileDownloadManager.lock, or "none"
    at,                 \* thread -> [pc, key, cb, wants]: where it stands, on which tile
    posted,             \* tile_ready calls queued for the UI thread's event loop
    executor            \* the work queue of the ThreadPoolExecutor: [key, cb] per future

regvars == <<drones, next_drone_number, workers, retired, last_call, ret>>
linkvars == <<pc, running, device, conn, connected, is_armed, hb_elapsed, check_elapsed,
              control_queue, out_queue, cur, cmd_events, tx, ack_result, stop_pc,
              rx, veh_alive, veh_timely>>
qvars == <<produced, delivered, gu_updates, gu_pc>>
tilevars == <<tile_db, download_queue, active_downloads, tm_running, executor_shutdown,
              run_pc, popped, fetching, completing, fetch_stage, req, last_req, tile_ready>>
cachevars == <<tile_cache, cache_cleanup_threshold, timer_left, unseen_age>>
msgvars == <<msg_in, msg_events>>
storevars == <<db_rows, last_cleanup>>
lockvars == <<cache_lock, lock, at, posted, executor>>
auxvars == <<qvars, tilevars, cachevars, msgvars, storevars, lockvars>>
vars == <<regvars, linkvars, auxvars>>

DroneNumbers == 1..MaxDroneNumber
Ports == {"", "COM3"}
RegPorts == {"COM3"}

\* ------------------------------------------------------------ dictionaries
\* A Python dict is a function from its keys; d.update(e):
DictUpdate(d, e) ==
    [k \in DOMAIN d \cup DOMAIN e |-> IF k \in DOMAIN e THEN e[k] ELSE d[k]]

DictSet(d, key, value) ==
    [k \in DOMAIN d \cup {key} |-> IF k = key THEN value ELSE d[k]]

DictDelAll(d, key) == [k \in {} |-> d[k]]
DictDel(d, key) == [k \in DOMAIN d \ {key} |-> d[k]]

EmptyDict == [k \in {} |-> 0]

\* A telemetry entry is a dict ([isdict |-> TRUE, d |-> ...]) or a scalar.
TDict(d) == [isdict |-> TRUE, d |-> d]

\* DroneConnection.__post_init__: the default telemetry.
DefaultTelemetry ==
    [c \in {"attitude", "position", "gps", "battery", "flight_mode", "last_update"} |->
        CASE c = "attitude" -> TDict([k \in {"roll", "pitch", "yaw"} |-> 0])
          [] c = "position" -> TDict([k \in {"lat", "lon", "alt"} |-> 0])
          [] c = "gps" -> TDict([k \in {"fix_type", "satellites", "hdop", "vdop"} |-> 0])
          [] c = "battery" -> TDict([k \in {"voltage", "current", "remaining"} |->
                                        IF k = "remaining" THEN -1 ELSE 0])
          [] OTHER -> [isdict |-> FALSE, d |-> EmptyDict]]

\* ===================================================================
\* The registry: DroneManager (drone_manager.py)
\* ===================================================================

\* MavlinkWorker.__init__ followed by configure(device, baud): the thread is
\* not started, nothing is queued, there is no connection.
NewWorker(dev) ==
    [device |-> dev, started |-> FALSE, alive |-> FALSE,
     control_queue |-> <<>>, out_queue |-> <<>>,
     conn |-> FALSE, connected |-> FALSE]

\* The worker's device is port.split(' - ')[0] if ' - ' in port else port:
\* the port itself for every port of Ports.
\* DroneConnection(drone_id, name, port, baud, worker, color).
NewDrone(port, color) ==
    [port |-> port, color |-> color, connected |-> FALSE, armed |-> FALSE,
     telemetry |-> DefaultTelemetry]

get_drone_count == Cardinality(DOMAIN drones)

\* add_drone: len(self.drones) >= self.max_drones
AtCapacityOffByOne == get_drone_count > max_drones
AtCapacity == get_drone_count >= max_drones

\* can_add_drone(): len(self.drones) < self.max_drones
can_add_droneInclusive == get_drone_count <= max_drones
can_add_drone == get_drone_count < max_drones

\* add_drone; color_index = len(self.drones) % len(self.DEFAULT_COLORS)
AddDroneReusing(port) ==
    /\ AtCapacity \/ next_drone_number <= MaxDroneNumber
    /\ last_call' = "add_drone"
    /\ IF AtCapacity
       THEN /\ ret' = RetNone
            /\ UNCHANGED <<drones, next_drone_number, workers, retired, linkvars>>
       ELSE LET id == CHOOSE n \in DroneNumbers \ DOMAIN drones :
                         \A o \in DroneNumbers \ DOMAIN drones : n <= o IN
            /\ next_drone_number' = IF id < next_drone_number
                                    THEN next_drone_number ELSE id + 1
            /\ drones' = DictSet(drones, id, NewDrone(port, get_drone_count % NumColors))
            /\ workers' = DictSet(workers, id, NewWorker(port))
            /\ ret' = RetId(id)
            /\ UNCHANGED <<retired, linkvars>>
AddDrone(port) ==
    /\ AtCapacity \/ next_drone_number <= MaxDroneNumber
    /\ last_call' = "add_drone"
    /\ IF AtCapacity
       THEN /\ ret' = RetNone
            /\ UNCHANGED <<drones, next_drone_number, workers, retired, linkvars>>
       ELSE LET id == next_drone_number IN
            /\ next_drone_number' = next_drone_number + 1
            /\ drones' = DictSet(drones, id, NewDrone(port, get_drone_count % NumColors))
            /\ workers' = DictSet(workers, id, NewWorker(port))
            /\ ret' = RetId(id)
            /\ UNCHANGED <<retired, linkvars>>

CanAddDrone ==
    /\ last_call' = "can_add_drone"
    /\ ret' = RetBool(can_add_drone)
    /\ UNCHANGED <<drones, next_drone_number, workers, retired, linkvars>>

\* MavlinkWorker._do_disconnect as one step (used where it runs on the UI
\* thread, in stop()): the connection is dropped and closed; a close that
\* raises adds an error event; "Disconnected" is always appended.
DoDisconnect(w) ==
    { [w EXCEPT !.conn = FALSE, !.connected = FALSE,
                !.out_queue = @ \o ev \o <<EvDisconnected>>] :
        ev \in IF w.conn THEN {<<>>, <<EvCloseError>>} ELSE {<<>>} }

Enqueue(w, cmd) == [w EXCEPT !.control_queue = Append(@, cmd)]

\* connect_drone: worker.start() unless is_alive() (RuntimeError swallowed
\* when the thread had been started before).
StartIfNeeded(w) ==
    IF w.alive \/ w.started THEN w ELSE [w EXCEPT !.started = TRUE, !.alive = TRUE]

\* MavlinkWorker.stop(): _running = False, then _do_disconnect() on the
\* calling thread.
StopWorker(w) == { [w2 EXCEPT !.alive = FALSE] : w2 \in DoDisconnect(w) }

\* remove_drone lines 145-149: disconnect() if drone.connected, then stop().
RetireWorker(w, was_connected) ==
    StopWorker(IF was_connected THEN Enqueue(w, "disconnect") ELSE w)

RemoveDrone(id) ==
    /\ last_call' = "remove_drone"
    /\ IF id \notin DOMAIN drones
       THEN /\ ret' = RetBool(FALSE)
            /\ UNCHANGED <<drones, next_drone_number, workers, retired, linkvars>>
       ELSE /\ retired' \in RetireWorker(workers[id], drones[id].connected)
            /\ workers' = DictDel(workers, id)
            /\ drones' = DictDel(drones, id)
            /\ ret' = RetBool(TRUE)
            /\ UNCHANGED <<next_drone_number, linkvars>>

\* connect_drone; line 186: drone.connected = True
ConnectDrone(id) ==
    /\ last_call' = "connect_drone"
    /\ IF id \notin DOMAIN drones
       THEN /\ ret' = RetBool(FALSE)
            /\ UNCHANGED <<drones, next_drone_number, workers, retired, linkvars>>
       ELSE /\ Len(workers[id].control_queue) < MaxCtl
            /\ workers' = [workers EXCEPT ![id] = Enqueue(StartIfNeeded(@), "connect")]
            /\ drones' = [drones EXCEPT ![id].connected = TRUE]
            /\ ret' = RetBool(TRUE)
            /\ UNCHANGED <<next_drone_number, retired, linkvars>>

DisconnectDrone(id) ==
    /\ last_call' = "disconnect_drone"
    /\ IF id \notin DOMAIN drones
       THEN /\ ret' = RetBool(FALSE)
            /\ UNCHANGED <<drones, next_drone_number, workers, retired, linkvars>>
       ELSE /\ Len(workers[id].control_queue) < MaxCtl
            /\ workers' = [workers EXCEPT ![id] = Enqueue(@, "disconnect")]
            /\ drones' = [drones EXCEPT ![id].connected = FALSE, ![id].armed = FALSE]
            /\ ret' = RetBool(TRUE)
            /\ UNCHANGED <<next_drone_number, retired, linkvars>>

\* update_telemetry(drone_id, msg_type, data) on one DroneConnection: a
\* stored dict is updated in place, an absent category is created, and the
\* 'status' category also sets armed. When the stored entry is no dict
\* ('flight_mode', 'last_update'), .update raises AttributeError before
\* anything is changed.
UpdateTelemetryRec(drone, msg_type, data) ==
    IF msg_type \in DOMAIN drone.telemetry /\ ~drone.telemetry[msg_type].isdict
    THEN [raised |-> TRUE, drone |-> drone]
    ELSE LET merged == IF msg_type \in DOMAIN drone.telemetry
                       THEN TDict(DictUpdate(drone.telemetry[msg_type].d, data))
                       ELSE TDict(data)
             d1 == [drone EXCEPT !.telemetry = DictSet(@, msg_type, merged)]
             d2 == IF msg_type = "status" /\ "armed" \in DOMAIN data
                   THEN [d1 EXCEPT !.armed = data["armed"]]
                   ELSE d1
         IN [raised |-> FALSE, drone |-> d2]

\* The (msg_type, data) pairs offered to update_telemetry by direct callers.
RegTelemetryInputs ==
    { <<"status", [k \in {"armed"} |-> TRUE]>>,
      <<"flight_mode", [k \in {"mode"} |-> 4]>> }

UpdateTelemetry(id, msg_type, data) ==
    /\ last_call' = "update_telemetry"
    /\ IF id \notin DOMAIN drones
       THEN /\ ret' = RetNone
            /\ UNCHANGED <<drones, next_drone_number, workers, retired, linkvars>>
       ELSE LET r == UpdateTelemetryRec(drones[id], msg_type, data) IN
            /\ drones' = [drones EXCEPT ![id] = r.drone]
            /\ ret' = IF r.raised THEN <<"AttributeError", 0>> ELSE RetNone
            /\ UNCHANGED <<next_drone_number, workers, retired, linkvars>>

\* ===================================================================
\* The poller: SimpleController (simple_controller.py)
\* ===================================================================

Text(t) == [k \in {"text"} |-> t]

\* _handle_status(status_text) on the record get_drone returned.
HandleStatusResetting(drone, status_text) ==
    IF HasDisconnected(status_text)
    THEN [drone EXCEPT !.connected = FALSE, !.armed = FALSE, !.telemetry = DefaultTelemetry]
    ELSE UpdateTelemetryRec(IF HasConnected(status_text)
                            THEN [drone EXCEPT !.connected = TRUE]
                            ELSE drone,
                            "status_message", Text(status_text)).drone
HandleStatus(drone, status_text) ==
    LET d1 == IF HasConnected(status_text)
              THEN [drone EXCEPT !.connected = TRUE]
              ELSE IF HasDisconnected(status_text)
                   THEN [drone EXCEPT !.connected = FALSE, !.armed = FALSE]
                   ELSE drone
    IN UpdateTelemetryRec(d1, "status_message", Text(status_text)).drone

\* One pass of the loop body of update_ui over an event (exceptions of the
\* body are caught and printed).
HandleEvent(drone, ev) ==
    CASE ev[1] = "status" -> HandleStatus(drone, ev[2])
      [] ev[1] = "error" -> UpdateTelemetryRec(drone, "error_message", Text(ev[2])).drone
      [] ev[1] = "flight_mode" ->
            UpdateTelemetryRec(drone, "flight_mode", [k \in {"mode"} |-> ev[2]]).drone
      [] ev[1] = "statustext" ->
            UpdateTelemetryRec(drone, "fcu_statustext", Text(ev[2])).drone
      \* isinstance(data, dict): the event kinds whose payload is a dict
      [] ev[1] \in {"attitude", "vfr_hud", "gps", "gps_pos", "sys_status", "data_rate"} ->
            UpdateTelemetryRec(drone, ev[1], ev[2]).drone
      [] OTHER -> drone

RECURSIVE HandleEvents(_, _)
HandleEvents(drone, updates) ==
    IF updates = <<>> THEN drone
    ELSE HandleEvents(HandleEvent(drone, Head(updates)), Tail(updates))

\* update_ui(): updates = worker.get_updates() drains the queue, then every
\* event is handled in order.
UpdateUi(id) ==
    /\ id \in DOMAIN drones
    /\ workers[id].out_queue # <<>>
    /\ last_call' = "update_ui"
    /\ ret' = RetNone
    /\ drones' = [drones EXCEPT ![id] = HandleEvents(@, workers[id].out_queue)]
    /\ workers' = [workers EXCEPT ![id].out_queue = <<>>]
    /\ UNCHANGED <<next_drone_number, retired, linkvars>>

\* ===================================================================
\* The workers of the registry: MavlinkWorker, one handler per step
\* ===================================================================

Put(w, evs) == [w EXCEPT !.out_queue = @ \o evs]

\* _do_connect(). Without a device only an error is reported. Otherwise,
\* after "Connecting": the connection opens and the heartbeat wait returns
\* (connected, "Connected"), and the stream requests then pass or raise; or
\* opening or waiting raises. The except clause reports the error, closes
\* self._conn when there is one, and clears conn and connected; a close that
\* raises there leaves the handler and run() (the thread ends).
DoConnect(w) ==
    IF w.device = ""
    THEN { Put(w, <<EvNoDevice>>) }
    ELSE LET w1 == Put(w, <<EvConnecting>>)
             ok == [Put(w1, <<EvConnected>>) EXCEPT !.conn = TRUE, !.connected = TRUE]
             Failed(x) == [Put(x, <<EvConnFailed>>) EXCEPT !.conn = FALSE, !.connected = FALSE]
             Died(x) == [Put(x, <<EvConnFailed>>) EXCEPT !.alive = FALSE]
         IN {ok, Failed(ok), Died(ok),                              \* streams pass / raise
             Failed(w1),                                            \* open or wait raises
             Died([w1 EXCEPT !.conn = TRUE])}                       \* and close raises too

\* run() lines 111-121: one request is taken from _control_queue and executed.
WorkerCommand(id) ==
    /\ id \in DOMAIN drones
    /\ workers[id].alive
    /\ workers[id].control_queue # <<>>
    /\ Len(workers[id].out_queue) <= MaxOut
    /\ LET cmd == Head(workers[id].control_queue)
           w == [workers[id] EXCEPT !.control_queue = Tail(@)]
       IN \E w2 \in (IF cmd = "connect" THEN DoConnect(w) ELSE DoDisconnect(w)) :
              workers' = [workers EXCEPT ![id] = w2]
    /\ UNCHANGED <<drones, next_drone_number, retired, last_call, ret, linkvars>>

\* run() lines 123-134: the heartbeat watchdog fires (the time since the
\* last heartbeat is left open here).
WorkerHeartbeatTimeout(id) ==
    /\ id \in DOMAIN drones
    /\ workers[id].alive /\ workers[id].conn /\ workers[id].connected
    /\ Len(workers[id].out_queue) <= MaxOut
    /\ workers' = [workers EXCEPT ![id] =
                    Put([@ EXCEPT !.connected = FALSE], <<EvHbTimeout, EvDisconnected>>)]
    /\ UNCHANGED <<drones, next_drone_number, retired, last_call, ret, linkvars>>

\* run() lines 139-149: recv_match raises.
WorkerReceiveError(id) ==
    /\ id \in DOMAIN drones
    /\ workers[id].alive /\ workers[id].conn
    /\ Len(workers[id].out_queue) <= MaxOut
    /\ workers' = [workers EXCEPT ![id] =
                    Put([@ EXCEPT !.conn = FALSE, !.connected = FALSE],
                        <<EvRecvError, EvDisconnected>>)]
    /\ UNCHANGED <<drones, next_drone_number, retired, last_call, ret, linkvars>>

\* ===================================================================
\* The registry's specification
\* ===================================================================

\* The drone whose link and poller are followed in SpecPoll.
Operated == {1}

\* The state of a MavlinkWorker after __init__ (no thread started).
InitLinkVars ==
    /\ pc = "idle"
    /\ running = FALSE
    /\ conn = FALSE
    /\ connected = FALSE
    /\ is_armed = FALSE
    /\ hb_elapsed = 4
    /\ check_elapsed = 0
    /\ control_queue = <<>>
    /\ out_queue = <<>>
    /\ cur = <<"None", FALSE, FALSE>>
    /\ cmd_events = <<>>
    /\ tx = <<>>
    /\ ack_result = <<"None", 0>>
    /\ stop_pc = "none"
    /\ rx = <<>>
    /\ veh_timely = FALSE

\* The threads of the tile pipeline: the UI thread, the thread of
\* TileDownloadManager.run() and the fetch workers of its executor.
FetchWorkers == {"w1", "w2"}
Threads == {"ui", "loop"} \cup FetchWorkers

\* (provider, z, x, y)
TileKeys == {<<"OpenStreetMap", 1, 0, 0>>, <<"OpenStreetMap", 1, 0, 1>>}
NoKey == <<"None", 0, 0, 0>>

DefaultCleanupThreshold == 450

\* The state after construction of everything but the registry and the
\* link: an empty _out_queue and no get_updates() under way;
\* TileDownloadManager.__init__ (lines 163-178), the tiles table holding
\* what earlier runs stored (tile_db one of dbs, db_rows one of stores);
\* ProfessionalGCSMap.__init__ (lines 406-408), the threshold one of
\* thresholds (config.py gives DefaultCleanupThreshold); no message handled.
InitAux(dbs, thresholds, stores, caches) ==
    /\ produced = <<>>
    /\ delivered = <<>>
    /\ gu_updates = <<>>
    /\ gu_pc = "idle"
    /\ tile_db \in dbs
    /\ download_queue = <<>>
    /\ active_downloads = {}
    /\ tm_running = TRUE
    /\ executor_shutdown = FALSE
    /\ run_pc = "top"
    /\ popped = NoKey
    /\ fetching = [k \in TileKeys |-> 0]
    /\ completing = [k \in TileKeys |-> 0]
    /\ fetch_stage = [k \in TileKeys |-> "get"]
    /\ req = NoKey
    /\ last_req = [key |-> NoKey, lookup |-> "None", emits |-> 0, enqueued |-> FALSE]
    /\ tile_ready = <<NoKey, "None">>
    /\ tile_cache \in caches
    /\ cache_cleanup_threshold \in thresholds
    /\ timer_left = -1
    /\ unseen_age = -1
    /\ msg_in = [type |-> "None"]
    /\ msg_events = <<>>
    /\ db_rows \in stores
    /\ last_cleanup = <<-1, -1>>
    /\ cache_lock = "none"
    /\ lock = "none"
    /\ at = [t \in Threads |-> [pc |-> "idle", key |-> NoKey, cb |-> FALSE, wants |-> "none"]]
    /\ posted = <<>>
    /\ executor = <<>>

\* DroneManager.__init__ (lines 67-74) and a MavlinkWorker not configured.
InitWith(dbs, thresholds, stores, caches) ==
    /\ InitLinkVars /\ device = "" /\ veh_alive = FALSE
    /\ InitAux(dbs, thresholds, stores, caches)
    /\ drones = EmptyDict
    /\ next_drone_number = 1
    /\ workers = EmptyDict
    /\ retired = NewWorker("")
    /\ last_call = "__init__"
    /\ ret = RetNone

InitReg == InitWith({{}}, {DefaultCleanupThreshold}, {<<>>}, {<<>>})

\* The registry alone: every call of DroneManager, on every drone number.
NextReg ==
    \/ (\E port \in RegPorts : AddDrone(port)) /\ UNCHANGED auxvars
    \/ (CanAddDrone) /\ UNCHANGED auxvars
    \/ (\E id \in DroneNumbers : RemoveDrone(id)) /\ UNCHANGED auxvars
    \/ (\E id \in DroneNumbers : ConnectDrone(id)) /\ UNCHANGED auxvars
    \/ (\E id \in DroneNumbers : DisconnectDrone(id)) /\ UNCHANGED auxvars
    \/ (\E id \in DroneNumbers : \E t \in RegTelemetryInputs : UpdateTelemetry(id, t[1], t[2])) /\ UNCHANGED auxvars

SpecReg == InitReg /\ [][NextReg]_vars

\* send_command (lines 287-308): hasattr(drone.worker, command) holds for
\* every attribute of MavlinkWorker, not only for its commands. The names
\* tried: the five commands (set_mode with its mode_id), "stop" (a method
\* that takes no argument), "_running" (an attribute that is not callable)
\* and "fly" (no attribute of the worker).
send_command(id, command) ==
    /\ last_call' = "send_command"
    /\ UNCHANGED <<drones, next_drone_number, retired, linkvars>>
    /\ IF id \notin DOMAIN drones \/ command = "fly"
       THEN ret' = RetNone /\ UNCHANGED workers
       ELSE IF command = "_running"
       THEN ret' = <<"TypeError", 0>> /\ UNCHANGED workers
       ELSE IF command = "stop"
       THEN /\ Len(workers[id].out_queue) <= MaxOut
            /\ \E w \in StopWorker(workers[id]) : workers' = [workers EXCEPT ![id] = w]
            /\ ret' = RetNone
       ELSE /\ Len(workers[id].control_queue) < MaxCtl
            /\ workers' = [workers EXCEPT ![id] = Enqueue(@, command)]
            /\ ret' = RetNone

\* The registry under send_command.
NextCommands ==
    \/ (\E port \in RegPorts : AddDrone(port)) /\ UNCHANGED auxvars
    \/ (\E id \in DroneNumbers : ConnectDrone(id)) /\ UNCHANGED auxvars
    \/ (\E id \in DroneNumbers :
          \E command \in ArmRequests \cup SendRequests \cup {"stop", "_running", "fly"} :
              send_command(id, command)) /\ UNCHANGED auxvars

SpecCommands == InitReg /\ [][NextCommands]_vars

\* One drone end to end: the registry calls on it, its worker thread and
\* its poller.
NextPoll ==
    \/ (\E port \in Ports : AddDrone(port)) /\ UNCHANGED auxvars
    \/ (\E id \in Operated : RemoveDrone(id)) /\ UNCHANGED auxvars
    \/ (\E id \in Operated : ConnectDrone(id)) /\ UNCHANGED auxvars
    \/ (\E id \in Operated : DisconnectDrone(id)) /\ UNCHANGED auxvars
    \/ (\E id \in Operated : UpdateUi(id)) /\ UNCHANGED auxvars
    \/ (\E id \in Operated : \E t \in RegTelemetryInputs : UpdateTelemetry(id, t[1], t[2])) /\ UNCHANGED auxvars
    \/ (\E id \in Operated : WorkerCommand(id)) /\ UNCHANGED auxvars
    \/ (\E id \in Operated : WorkerHeartbeatTimeout(id)) /\ UNCHANGED auxvars
    \/ (\E id \in Operated : WorkerReceiveError(id)) /\ UNCHANGED auxvars

SpecPoll == InitReg /\ [][NextPoll]_vars

\* ===================================================================
\* One MavlinkWorker in detail (mavlink_worker.py)
\* ===================================================================
\* Time is counted in whole seconds and only as far as the code compares
\* it: hb_elapsed and check_elapsed stop growing one past their thresholds.
\* Time passes where the thread of run() sleeps or blocks. The vehicle and
\* stop() act at any moment. A request queued, or a queue drained, while a
\* turn of run() is under way is seen by run() at the start of the next turn
\* exactly as one queued or drained just before that start, so the caller's
\* queue operations are placed at the start of a turn.

Min(a, b) == IF a < b THEN a ELSE b


\* A HEARTBEAT as _process_message reads it: base_mode's SAFETY_ARMED bit.
Heartbeat(armed) == [type |-> "HEARTBEAT", valid |-> TRUE, armed |-> armed]

\* d seconds pass.
Elapse(d) ==
    /\ hb_elapsed' = Min(hb_elapsed + d, HEARTBEAT_TIMEOUT + 1)
    /\ check_elapsed' = Min(check_elapsed + d, HEARTBEAT_CHECK_INTERVAL_SEC + 1)

NoTime == UNCHANGED <<hb_elapsed, check_elapsed>>

\* A request's events go on _out_queue.
PutCmd(evs) ==
    /\ out_queue' = out_queue \o evs
    /\ cmd_events' = cmd_events \o evs

\* ------------------------------------------------ the caller's thread

\* Thread.start(): run() sets _running and notes the time (lines 107-108).
Start ==
    /\ pc = "idle" /\ stop_pc = "none"
    /\ pc' = "cmd"
    /\ running' = TRUE
    /\ check_elapsed' = 0
    /\ UNCHANGED <<device, conn, connected, is_armed, hb_elapsed, control_queue, out_queue,
                   cur, cmd_events, tx, ack_result, stop_pc, rx, veh_alive, veh_timely>>

BetweenTurns == pc \in {"idle", "cmd", "dead"}

\* connect(), disconnect(), arm_disarm(), force_arm(): the request is queued.
Request(cmd) ==
    /\ stop_pc = "none" /\ BetweenTurns
    /\ Len(control_queue) < MaxCtl
    /\ control_queue' = Append(control_queue, cmd)
    /\ UNCHANGED <<pc, running, device, conn, connected, is_armed, hb_elapsed, check_elapsed,
                   out_queue, cur, cmd_events, tx, ack_result, stop_pc, rx, veh_alive,
                   veh_timely>>

\* get_updates(): the queue is drained.
GetUpdates ==
    /\ out_queue # <<>> /\ BetweenTurns
    /\ out_queue' = <<>>
    /\ UNCHANGED <<pc, running, device, conn, connected, is_armed, hb_elapsed, check_elapsed,
                   control_queue, cur, cmd_events, tx, ack_result, stop_pc, rx, veh_alive,
                   veh_timely>>

\* _do_disconnect(): what it puts on the queue; close() is called when there
\* was a connection and may raise.
DisconnectEventsOnlyIfOpen(had_conn, close_raised) ==
    IF had_conn THEN (IF close_raised THEN <<EvCloseError>> ELSE <<>>) \o <<EvDisconnected>>
    ELSE <<>>
DisconnectEvents(had_conn, close_raised) ==
    (IF had_conn /\ close_raised THEN <<EvCloseError>> ELSE <<>>) \o <<EvDisconnected>>

\* stop(): self._running = False, then _do_disconnect() on the caller's
\* thread, whatever run() is doing.
Stop ==
    /\ stop_pc = "none"
    /\ stop_pc' = "done"
    /\ running' = FALSE
    /\ conn' = FALSE
    /\ connected' = FALSE
    /\ \E close_raised \in BOOLEAN :
          out_queue' = out_queue \o DisconnectEvents(conn, close_raised)
    /\ UNCHANGED <<pc, device, is_armed, hb_elapsed, check_elapsed, control_queue, cur,
                   cmd_events, tx, ack_result, rx, veh_alive, veh_timely>>

\* ------------------------------------------------------- the vehicle
VehicleStarts ==
    /\ ~veh_alive
    /\ veh_alive' = TRUE
    /\ UNCHANGED <<pc, running, device, conn, connected, is_armed, hb_elapsed, check_elapsed,
                   control_queue, out_queue, cur, cmd_events, tx, ack_result, stop_pc, rx,
                   veh_timely>>

VehicleStops ==
    /\ veh_alive
    /\ veh_alive' = FALSE
    /\ veh_timely' = FALSE
    /\ UNCHANGED <<pc, running, device, conn, connected, is_armed, hb_elapsed, check_elapsed,
                   control_queue, out_queue, cur, cmd_events, tx, ack_result, stop_pc, rx>>

\* ------------------------------------------ run(): taking a request
\* lines 111-121. get_nowait() raises Empty on an empty queue.
TakeNothing ==
    /\ pc = "cmd" /\ control_queue = <<>>
    /\ Len(out_queue) <= MaxOut
    /\ pc' = "hb"
    /\ UNCHANGED <<running, device, conn, connected, is_armed, hb_elapsed, check_elapsed,
                   control_queue, out_queue, cur, cmd_events, tx, ack_result, stop_pc, rx,
                   veh_alive, veh_timely>>

Taken(cmd) ==
    /\ pc = "cmd" /\ control_queue # <<>> /\ Head(control_queue) = cmd
    /\ Len(out_queue) <= MaxOut
    /\ control_queue' = Tail(control_queue)
    /\ cur' = <<cmd, conn, connected>>

\* _do_connect lines 157-159: no device, or "Connecting to ...".
ConnectBegin ==
    /\ Taken("connect")
    /\ IF device = ""
       THEN PutCmd(<<EvNoDevice>>) /\ pc' = "hb"
       ELSE PutCmd(<<EvConnecting>>) /\ pc' = "c_open"
    /\ NoTime
    /\ UNCHANGED <<running, device, conn, connected, is_armed, tx, ack_result, stop_pc, rx,
                   veh_alive, veh_timely>>

\* _do_connect lines 161-167: mavutil.mavlink_connection(...) returns the new
\* connection, assigned to self._conn, or raises.
ConnectOpen ==
    /\ pc = "c_open"
    /\ \/ conn' = TRUE /\ rx' = <<>> /\ pc' = "c_wait"
       \/ pc' = "c_fail" /\ UNCHANGED <<conn, rx>>
    /\ UNCHANGED <<running, device, connected, is_armed, hb_elapsed, check_elapsed,
                   control_queue, out_queue, cur, cmd_events, tx, ack_result, stop_pc,
                   veh_alive, veh_timely>>

\* _do_connect line 170: self._conn.wait_heartbeat(timeout=CONNECTION_TIMEOUT)
\* returns with a heartbeat (within a second when the vehicle is alive),
\* returns None after the timeout, or raises (also when stop() has cleared
\* self._conn meanwhile).
ConnectWait ==
    /\ pc = "c_wait"
    /\ IF ~conn
       THEN pc' = "c_fail" /\ NoTime /\ UNCHANGED rx
       ELSE /\ rx' = <<>>
            /\ \/ veh_alive /\ pc' = "c_set" /\ \E d \in 0..1 : Elapse(d)
               \/ ~veh_alive /\ pc' = "c_set" /\ Elapse(CONNECTION_TIMEOUT)
               \/ pc' = "c_fail" /\ \E d \in 0..1 : Elapse(d)
    /\ UNCHANGED <<running, device, conn, connected, is_armed, control_queue, out_queue,
                   cur, cmd_events, tx, ack_result, stop_pc, veh_alive, veh_timely>>

\* _do_connect lines 172-175: connected, heartbeat time, "Connected".
ConnectSet ==
    /\ pc = "c_set"
    /\ connected' = TRUE
    /\ hb_elapsed' = 0
    /\ veh_timely' = veh_alive
    /\ PutCmd(<<EvConnected>>)
    /\ pc' = "c_streams"
    /\ UNCHANGED <<running, device, conn, is_armed, check_elapsed, control_queue, cur, tx,
                   ack_result, stop_pc, rx, veh_alive>>

\* _do_connect lines 179-194: the four request_data_stream_send calls.
ConnectStreams ==
    /\ pc = "c_streams"
    /\ IF ~conn THEN pc' = "c_fail" ELSE pc' \in {"hb", "c_fail"}
    /\ UNCHANGED <<running, device, conn, connected, is_armed, hb_elapsed, check_elapsed,
                   control_queue, out_queue, cur, cmd_events, tx, ack_result, stop_pc, rx,
                   veh_alive, veh_timely>>

\* _do_connect lines 195-200, the except clause: the error is reported,
\* self._conn is closed when there is one, conn and connected are cleared. A
\* close() that raises leaves _do_connect and run(): the thread ends.
ConnectFail ==
    /\ pc = "c_fail"
    /\ PutCmd(<<EvConnFailed>>)
    /\ \/ conn' = FALSE /\ connected' = FALSE /\ pc' = "hb"
       \/ conn /\ pc' = "dead" /\ UNCHANGED <<conn, connected>>
    /\ UNCHANGED <<running, device, is_armed, hb_elapsed, check_elapsed, control_queue, cur,
                   tx, ack_result, stop_pc, rx, veh_alive, veh_timely>>

\* _do_disconnect lines 202-213.
Disconnect ==
    /\ Taken("disconnect")
    /\ conn' = FALSE
    /\ connected' = FALSE
    /\ \E close_raised \in BOOLEAN : PutCmd(DisconnectEvents(conn, close_raised))
    /\ pc' = "hb"
    /\ NoTime
    /\ UNCHANGED <<running, device, is_armed, tx, ack_result, stop_pc, rx, veh_alive,
                   veh_timely>>

\* --------------------------------------------- _do_arm_disarm
\* The COMMAND_LONG the handler sends: param1 (1 arm, 0 disarm), param2.
ArmCommand(armed, force) ==
    IF armed THEN <<"ARM_DISARM", 0, 0>>
    ELSE IF force THEN <<"ARM_DISARM", 1, FORCE_ARM_MAGIC>>
    ELSE <<"ARM_DISARM", 1, 0>>

SendingEvent(armed, force) ==
    IF armed THEN <<"status", "Sending Disarm command...">>
    ELSE IF force THEN <<"status", "Sending Force Arm command...">>
    ELSE EvSendingArm

\* lines 216-245: "Not connected" when there is no connection object (line
\* 216), or the announcement and the send.
ArmSend(cmd) ==
    /\ Taken(cmd)
    /\ NoTime
    /\ IF ~conn
       THEN PutCmd(<<EvNotConnected>>) /\ pc' = "hb" /\ UNCHANGED tx
       ELSE \/ /\ PutCmd(<<SendingEvent(is_armed, cmd = "force_arm")>>)
               /\ tx' = <<ArmCommand(is_armed, cmd = "force_arm")>>
               /\ pc' = "a_wait"
            \/ /\ PutCmd(<<SendingEvent(is_armed, cmd = "force_arm"), EvSendFailed>>)
               /\ pc' = "hb"
               /\ UNCHANGED tx
    /\ UNCHANGED <<running, device, conn, connected, is_armed, ack_result, stop_pc, rx,
                   veh_alive, veh_timely>>

\* lines 248-261: what recv_match(type='COMMAND_ACK', blocking=True,
\* timeout=COMMAND_ACK_TIMEOUT_SEC) gives back, and the event for it.

AckEventsSilentTimeout(outcome) ==
    CASE outcome = "accepted" -> <<EvAccepted>>
      [] outcome = "rejected" -> <<EvRejected>>
      [] outcome = "timeout"  -> <<>>
      [] outcome = "other"    -> <<EvNoAck>>
      [] outcome = "raised"   -> <<EvAckRecvFailed>>
AckEvents(outcome) ==
    CASE outcome = "accepted" -> <<EvAccepted>>
      [] outcome = "rejected" -> <<EvRejected>>
      [] outcome = "timeout"  -> <<EvNoAck>>
      [] outcome = "other"    -> <<EvNoAck>>
      [] outcome = "raised"   -> <<EvAckRecvFailed>>

\* The wait blocks the thread of run(); recv_match reads and drops every
\* message that is not a COMMAND_ACK, heartbeats included.
AckWait ==
    /\ pc = "a_wait"
    /\ pc' = "hb"
    /\ IF ~conn
       THEN /\ ack_result' = <<"raised", 0>>
            /\ PutCmd(AckEvents("raised"))
            /\ NoTime
            /\ UNCHANGED rx
       ELSE \E outcome \in {"timeout", "accepted", "rejected", "other", "raised"}, d \in 0..COMMAND_ACK_TIMEOUT_SEC :
            /\ outcome = "timeout" => d = COMMAND_ACK_TIMEOUT_SEC
            /\ outcome \in {"accepted", "rejected", "other"} => veh_alive
            /\ outcome = "raised" => d = 0
            /\ ack_result' = <<outcome, d>>
            /\ PutCmd(AckEvents(outcome))
            /\ Elapse(d)
            /\ rx' = <<>>
    /\ UNCHANGED <<running, device, conn, connected, is_armed, control_queue, cur, tx,
                   stop_pc, veh_alive, veh_timely>>

\* ------------------- _do_set_mode, _do_mission_start, _do_abort_land
\* lines 263-302: what each handler sends and the events around the send.
SentCommand(cmd) ==
    CASE cmd = "set_mode"      -> <<"SET_MODE", 0, 0>>
      [] cmd = "mission_start" -> <<"MISSION_START", 0, 0>>
      [] cmd = "abort_land"    -> <<"NAV_RETURN_TO_LAUNCH", 0, 0>>

SendingOf(cmd) ==
    CASE cmd = "set_mode"      -> <<"status", "Sending Set Mode command (Mode ID: mode_id)...">>
      [] cmd = "mission_start" -> <<"status", "Sending Mission Start command (MAV_CMD_MISSION_START)...">>
      [] cmd = "abort_land"    -> <<"status", "Sending Abort Landing command (MAV_CMD_NAV_RETURN_TO_LAUNCH)...">>

SentOf(cmd) ==
    CASE cmd = "set_mode"      -> <<"status", "Set mode command sent for mode mode_id. Waiting for confirmation...">>
      [] cmd = "mission_start" -> <<"status", "Mission Start command sent.">>
      [] cmd = "abort_land"    -> <<"status", "Abort Landing (RTL) command sent.">>

FailedOf(cmd) ==
    CASE cmd = "set_mode"      -> <<"error", "Failed to set mode">>
      [] cmd = "mission_start" -> <<"error", "Failed to send mission start">>
      [] cmd = "abort_land"    -> <<"error", "Failed to send abort command">>

\* "Not connected" without a connection object; otherwise the announcement,
\* the send, and "sent" or the error of a send that raised.
SendCommand(cmd) ==
    /\ Taken(cmd)
    /\ NoTime
    /\ pc' = "hb"
    /\ IF ~conn
       THEN PutCmd(<<EvNotConnected>>) /\ UNCHANGED tx
       ELSE \/ /\ PutCmd(<<SendingOf(cmd), SentOf(cmd)>>)
               /\ tx' = <<SentCommand(cmd)>>
            \/ /\ PutCmd(<<SendingOf(cmd), FailedOf(cmd)>>)
               /\ UNCHANGED tx
    /\ UNCHANGED <<running, device, conn, connected, is_armed, ack_result, stop_pc, rx,
                   veh_alive, veh_timely>>

\* ------------------------------------------ run(): the watchdog
\* line 131
WatchdogExpiredAnyState == hb_elapsed > HEARTBEAT_TIMEOUT
WatchdogExpired == connected /\ hb_elapsed > HEARTBEAT_TIMEOUT

\* lines 124-134 (the check is due by the condition of line 128)
HeartbeatCheck ==
    /\ pc = "hb"
    /\ pc' = "recv"
    /\ IF conn /\ check_elapsed > HEARTBEAT_CHECK_INTERVAL_SEC
       THEN /\ check_elapsed' = 0
            /\ IF WatchdogExpired
               THEN /\ connected' = FALSE
                    /\ out_queue' = out_queue \o <<EvHbTimeout, EvDisconnected>>
               ELSE UNCHANGED <<connected, out_queue>>
       ELSE UNCHANGED <<check_elapsed, connected, out_queue>>
    /\ UNCHANGED <<running, device, conn, is_armed, hb_elapsed, control_queue, cur,
                   cmd_events, tx, ack_result, stop_pc, rx, veh_alive, veh_timely>>

\* ------------------------------------------ run(): receiving
\* lines 136-149. A valid HEARTBEAT renews _last_heartbeat and sets
\* _is_armed from its armed bit (_process_message lines 339-346).
Receive ==
    /\ pc = "recv"
    /\ pc' = "sleep"
    /\ IF ~conn
       THEN UNCHANGED <<conn, connected, is_armed, hb_elapsed, out_queue, rx>>
       ELSE \/ /\ rx = <<>>
               /\ UNCHANGED <<conn, connected, is_armed, hb_elapsed, out_queue, rx>>
            \/ /\ rx # <<>>
               /\ rx' = Tail(rx)
               /\ IF Head(rx).type = "HEARTBEAT" /\ Head(rx).valid
                  THEN hb_elapsed' = 0 /\ is_armed' = Head(rx).armed
                  ELSE UNCHANGED <<hb_elapsed, is_armed>>
               /\ UNCHANGED <<conn, connected, out_queue>>
            \/ /\ out_queue' = out_queue \o <<EvRecvError, EvDisconnected>>
               /\ conn' = FALSE
               /\ connected' = FALSE
               /\ UNCHANGED <<is_armed, hb_elapsed, rx>>
    /\ UNCHANGED <<running, device, check_elapsed, control_queue, cur, cmd_events, tx,
                   ack_result, stop_pc, veh_alive, veh_timely>>

\* ------------------------------------------ run(): the end of a turn
\* line 150 and the loop test of line 110. A vehicle that is alive sends a
\* heartbeat each second; an open connection holds it until it is read.
Sleep ==
    /\ pc = "sleep"
    /\ pc' = IF running THEN "cmd" ELSE "dead"
    /\ \E d \in 0..1 :
         /\ Elapse(d)
         /\ IF conn /\ veh_alive /\ d = 1 /\ rx = <<>>
            THEN \E a \in BOOLEAN : rx' = <<Heartbeat(a)>>
            ELSE UNCHANGED rx
    /\ cur' = <<"None", FALSE, FALSE>>
    /\ cmd_events' = <<>>
    /\ tx' = <<>>
    /\ ack_result' = <<"None", 0>>
    /\ UNCHANGED <<running, device, conn, connected, is_armed, control_queue, out_queue,
                   stop_pc, veh_alive, veh_timely>>

InitLink ==
    /\ InitLinkVars
    /\ InitAux({{}}, {DefaultCleanupThreshold}, {<<>>}, {<<>>})
    /\ device \in Ports
    /\ veh_alive \in BOOLEAN
    /\ drones = EmptyDict
    /\ next_drone_number = 1
    /\ workers = EmptyDict
    /\ retired = NewWorker("")
    /\ last_call = "__init__"
    /\ ret = RetNone

NextLink ==
    \/ (Start /\ UNCHANGED regvars /\ UNCHANGED auxvars)
    \/ (\E cmd \in {"connect", "disconnect"} \cup ArmRequests \cup SendRequests : Request(cmd) /\ UNCHANGED regvars /\ UNCHANGED auxvars)
    \/ (GetUpdates /\ UNCHANGED regvars /\ UNCHANGED auxvars)
    \/ (Stop /\ UNCHANGED regvars /\ UNCHANGED auxvars)
    \/ (VehicleStarts /\ UNCHANGED regvars /\ UNCHANGED auxvars)
    \/ (VehicleStops /\ UNCHANGED regvars /\ UNCHANGED auxvars)
    \/ (TakeNothing /\ UNCHANGED regvars /\ UNCHANGED auxvars)
    \/ (ConnectBegin /\ UNCHANGED regvars /\ UNCHANGED auxvars)
    \/ (ConnectOpen /\ UNCHANGED regvars /\ UNCHANGED auxvars)
    \/ (ConnectWait /\ UNCHANGED regvars /\ UNCHANGED auxvars)
    \/ (ConnectSet /\ UNCHANGED regvars /\ UNCHANGED auxvars)
    \/ (ConnectStreams /\ UNCHANGED regvars /\ UNCHANGED auxvars)
    \/ (ConnectFail /\ UNCHANGED regvars /\ UNCHANGED auxvars)
    \/ (Disconnect /\ UNCHANGED regvars /\ UNCHANGED auxvars)
    \/ (\E cmd \in ArmRequests : ArmSend(cmd) /\ UNCHANGED regvars /\ UNCHANGED auxvars)
    \/ (\E cmd \in SendRequests : SendCommand(cmd) /\ UNCHANGED regvars /\ UNCHANGED auxvars)
    \/ (AckWait /\ UNCHANGED regvars /\ UNCHANGED auxvars)
    \/ (HeartbeatCheck /\ UNCHANGED regvars /\ UNCHANGED auxvars)
    \/ (Receive /\ UNCHANGED regvars /\ UNCHANGED auxvars)
    \/ (Sleep /\ UNCHANGED regvars /\ UNCHANGED auxvars)

SpecLink == InitLink /\ [][NextLink]_vars

\* ===================================================================
\* get_updates() against the thread of run() (mavlink_worker.py lines 97-104)
\* ===================================================================
\* The thread of run() puts events on _out_queue while the consumer's
\* get_updates() takes them off one get_nowait() at a time.


\* Queue.get_nowait() on a queue that is not empty: the oldest item.
QueueGetNewest(q) == [item |-> q[Len(q)], rest |-> SubSeq(q, 1, Len(q) - 1)]
QueueGet(q) == [item |-> Head(q), rest |-> Tail(q)]

\* self._out_queue.put(e) on the thread of run()
LinkPuts(e) ==
    /\ Len(produced) < MaxProduced
    /\ out_queue' = Append(out_queue, e)
    /\ produced' = Append(produced, e)
    /\ UNCHANGED <<delivered, gu_updates, gu_pc>>

\* line 98: updates = []
GetUpdatesBegin ==
    /\ gu_pc = "idle"
    /\ gu_pc' = "loop"
    /\ gu_updates' = <<>>
    /\ UNCHANGED <<out_queue, produced, delivered>>

\* lines 99-103: one turn of the loop; Empty ends it.
GetNowait ==
    /\ gu_pc = "loop"
    /\ IF out_queue # <<>>
       THEN /\ gu_updates' = Append(gu_updates, QueueGet(out_queue).item)
            /\ out_queue' = QueueGet(out_queue).rest
            /\ UNCHANGED gu_pc
       ELSE /\ gu_pc' = "return"
            /\ UNCHANGED <<gu_updates, out_queue>>
    /\ UNCHANGED <<produced, delivered>>

\* line 104: return updates
GetUpdatesReturn ==
    /\ gu_pc = "return"
    /\ gu_pc' = "idle"
    /\ delivered' = delivered \o gu_updates
    /\ gu_updates' = <<>>
    /\ UNCHANGED <<out_queue, produced>>

QueueOthers ==
    UNCHANGED <<regvars, tilevars, cachevars, msgvars, storevars, lockvars, pc, running, device, conn, connected, is_armed, hb_elapsed,
                check_elapsed, control_queue, cur, cmd_events, tx, ack_result, stop_pc,
                rx, veh_alive, veh_timely>>

NextQueue ==
    \/ (\E e \in {EvConnected, EvDisconnected} : LinkPuts(e) /\ QueueOthers)
    \/ (GetUpdatesBegin /\ QueueOthers)
    \/ (GetNowait /\ QueueOthers)
    \/ (GetUpdatesReturn /\ QueueOthers)

SpecQueue == InitReg /\ [][NextQueue]_vars

\* ===================================================================
\* TileDownloadManager (professional_gcs_map.py lines 159-363)
\* ===================================================================
\* request_tile and stop run on the GUI thread, run() on the manager's own
\* thread, _download_tile and the done-callback on the executor's threads.

QueueKeys == { download_queue[i] : i \in 1..Len(download_queue) }

\* PersistentTileCache.get_tile (lines 97-111): the pixmap of a stored row, or
\* None when there is no row, the row does not load, or sqlite raises.
get_tileNoMiss(k) == {"hit"}
get_tile(k) == IF k \in tile_db THEN {"hit", "None"} ELSE {"None"}

\* request_tile lines 243-248: the key is neither in active_downloads nor in
\* the queue.
AlreadyPendingQueueOnly(k) == k \in QueueKeys
AlreadyPending(k) == k \in active_downloads \/ k \in QueueKeys

\* request_tile lines 223-241: the cache lookup; on a hit the tile is emitted
\* and the call returns.
RequestLookup(k) ==
    /\ req = NoKey
    \* the GUI thread is not waiting in stop()'s executor.shutdown(wait=True)
    /\ ~(executor_shutdown /\ \E j \in TileKeys : fetching[j] + completing[j] > 0)
    /\ \E found \in get_tile(k) :
         IF found = "hit"
         THEN /\ tile_ready' = <<k, "cache">>
              /\ last_req' = [key |-> k, lookup |-> "hit", emits |-> 1, enqueued |-> FALSE]
              /\ UNCHANGED req
         ELSE /\ req' = k
              /\ UNCHANGED <<tile_ready, last_req>>
    /\ UNCHANGED <<tile_db, download_queue, active_downloads, tm_running, executor_shutdown,
                   run_pc, popped, fetching, completing, fetch_stage>>

\* request_tile lines 240-250: the miss, under the lock.
RequestEnqueue ==
    /\ req # NoKey
    /\ req' = NoKey
    /\ IF AlreadyPending(req)
       THEN /\ last_req' = [key |-> req, lookup |-> "None", emits |-> 0, enqueued |-> FALSE]
            /\ UNCHANGED <<download_queue, active_downloads>>
       ELSE /\ last_req' = [key |-> req, lookup |-> "None", emits |-> 0, enqueued |-> TRUE]
            /\ download_queue' = Append(download_queue, req)
            /\ active_downloads' = active_downloads \cup {req}
    /\ UNCHANGED <<tile_db, tm_running, executor_shutdown, run_pc, popped, fetching,
                   completing, tile_ready, fetch_stage>>

\* run() lines 256-261: the loop test and popleft() under the lock.
RunPop ==
    /\ run_pc = "top" /\ tm_running /\ download_queue # <<>>
    /\ popped' = Head(download_queue)
    /\ download_queue' = Tail(download_queue)
    /\ run_pc' = "submit"
    /\ UNCHANGED <<tile_db, active_downloads, tm_running, executor_shutdown, fetching,
                   completing, req, last_req, tile_ready, fetch_stage>>

\* run() lines 267-268 and 272-274: executor.submit and add_done_callback.
\* submit raises RuntimeError once the executor is shut down; the except
\* clause logs it and the loop goes on.
RunSubmit ==
    /\ run_pc = "submit"
    /\ run_pc' = "top"
    /\ popped' = NoKey
    /\ IF executor_shutdown
       THEN UNCHANGED fetching
       ELSE fetching' = [fetching EXCEPT ![popped] = @ + 1]
    /\ UNCHANGED <<tile_db, download_queue, active_downloads, tm_running, executor_shutdown,
                   completing, req, last_req, tile_ready, fetch_stage>>

\* run() line 255: the loop ends when self.running is false.
RunExit ==
    /\ run_pc = "top" /\ ~tm_running
    /\ run_pc' = "exit"
    /\ UNCHANGED <<tile_db, download_queue, active_downloads, tm_running, executor_shutdown,
                   popped, fetching, completing, req, last_req, tile_ready, fetch_stage>>

\* _download_tile lines 277-296 and 311-325: session.get. On HTTP 200 the
\* function goes on; on another status or an exception it logs and returns.
DownloadTile(k) ==
    /\ fetching[k] > 0 /\ fetch_stage[k] = "get"
    /\ \/ /\ fetch_stage' = [fetch_stage EXCEPT ![k] = "store"]
          /\ UNCHANGED <<fetching, completing>>
       \/ /\ fetching' = [fetching EXCEPT ![k] = @ - 1]
          /\ completing' = [completing EXCEPT ![k] = @ + 1]
          /\ UNCHANGED fetch_stage
    /\ UNCHANGED <<tile_db, download_queue, active_downloads, tm_running, executor_shutdown,
                   run_pc, popped, req, last_req, tile_ready>>

\* _download_tile line 302: cache.store_tile, which writes the row or
\* swallows its own failure (lines 113-129) and returns either way.
StoreTileRaising(k) ==
    /\ fetching[k] > 0 /\ fetch_stage[k] = "store"
    /\ \/ /\ tile_db' = tile_db \cup {k}
          /\ fetch_stage' = [fetch_stage EXCEPT ![k] = "emit"]
          /\ UNCHANGED <<fetching, completing>>
       \/ /\ fetching' = [fetching EXCEPT ![k] = @ - 1]
          /\ completing' = [completing EXCEPT ![k] = @ + 1]
          /\ fetch_stage' = [fetch_stage EXCEPT ![k] = "get"]
          /\ UNCHANGED tile_db
    /\ UNCHANGED <<download_queue, active_downloads, tm_running, executor_shutdown,
                   run_pc, popped, req, last_req, tile_ready>>
StoreTile(k) ==
    /\ fetching[k] > 0 /\ fetch_stage[k] = "store"
    /\ tile_db' \in {tile_db \cup {k}, tile_db}
    /\ fetch_stage' = [fetch_stage EXCEPT ![k] = "emit"]
    /\ UNCHANGED <<download_queue, active_downloads, tm_running, executor_shutdown,
                   run_pc, popped, fetching, completing, req, last_req, tile_ready>>

\* _download_tile lines 304-310: tile_ready.emit, and the return.
EmitTileAnyStage(k) ==
    /\ fetching[k] > 0
    /\ tile_ready' = <<k, "download">>
    /\ fetching' = [fetching EXCEPT ![k] = @ - 1]
    /\ completing' = [completing EXCEPT ![k] = @ + 1]
    /\ fetch_stage' = [fetch_stage EXCEPT ![k] = "get"]
    /\ UNCHANGED <<tile_db, download_queue, active_downloads, tm_running, executor_shutdown,
                   run_pc, popped, req, last_req>>
EmitTile(k) ==
    /\ fetching[k] > 0 /\ fetch_stage[k] = "emit"
    /\ tile_ready' = <<k, "download">>
    /\ fetching' = [fetching EXCEPT ![k] = @ - 1]
    /\ completing' = [completing EXCEPT ![k] = @ + 1]
    /\ fetch_stage' = [fetch_stage EXCEPT ![k] = "get"]
    /\ UNCHANGED <<tile_db, download_queue, active_downloads, tm_running, executor_shutdown,
                   run_pc, popped, req, last_req>>

\* _download_complete lines 354-358, the future's done-callback.
DownloadComplete(k) ==
    /\ completing[k] > 0
    /\ completing' = [completing EXCEPT ![k] = @ - 1]
    /\ active_downloads' = active_downloads \ {k}
    /\ UNCHANGED <<tile_db, download_queue, tm_running, executor_shutdown, run_pc, popped,
                   fetching, req, last_req, tile_ready, fetch_stage>>

\* stop() lines 360-363: running = False, then executor.shutdown(wait=True),
\* which refuses new futures at once and returns when the submitted ones
\* are done.
TileStop ==
    /\ tm_running /\ req = NoKey
    /\ tm_running' = FALSE
    /\ executor_shutdown' = TRUE
    /\ UNCHANGED <<tile_db, download_queue, active_downloads, run_pc, popped, fetching,
                   completing, req, last_req, tile_ready, fetch_stage>>

TileOthers == UNCHANGED <<regvars, linkvars, qvars, cachevars, msgvars, storevars, lockvars>>

NextTiles ==
    \/ (\E k \in TileKeys : RequestLookup(k) /\ TileOthers)
    \/ (RequestEnqueue /\ TileOthers)
    \/ (RunPop /\ TileOthers)
    \/ (RunSubmit /\ TileOthers)
    \/ (RunExit /\ TileOthers)
    \/ (\E k \in TileKeys : DownloadTile(k) /\ TileOthers)
    \/ (\E k \in TileKeys : StoreTile(k) /\ TileOthers)
    \/ (\E k \in TileKeys : EmitTile(k) /\ TileOthers)
    \/ (\E k \in TileKeys : DownloadComplete(k) /\ TileOthers)
    \/ (TileStop /\ TileOthers)

SpecTiles ==
    InitWith(SUBSET TileKeys, {DefaultCleanupThreshold}, {<<>>}, {<<>>}) /\ [][NextTiles]_vars

\* ===================================================================
\* ProfessionalGCSMap's in-memory tile cache (professional_gcs_map.py)
\* ===================================================================
MapZoom == 1
MapProviderName == "OpenStreetMap"
TileColumns == 0..MaxThreshold

\* line 613: how many entries one eviction pass removes
EvictCount(n) == Min(50, n \div 4)

\* popitem(last=False), n times, on a cache that has them
PopOldest(c, n) == SubSeq(c, n + 1, Len(c))

\* lines 617-618: tile_cache[key] = pixmap; move_to_end(key)
StoreLast(c, k) == Append(SelectSeq(c, LAMBDA e : e # k), k)

\* _on_tile_ready lines 595-624
\* The interval of tile_update_timer (line 490: 50 ms), in ticks of 25 ms.
TileUpdateInterval == 2

\* lines 621-622: start() unless the timer is active.
StartTimerAlways(left) == TileUpdateInterval
StartTimer(left) == IF left = -1 THEN TileUpdateInterval ELSE left

OnTileReady(z, x, loads) ==
    /\ IF z # MapZoom \/ ~loads
       THEN UNCHANGED <<tile_cache, timer_left, unseen_age>>
       ELSE LET key == <<MapProviderName, z, x, 0>>
                kept == IF Len(tile_cache) >= cache_cleanup_threshold
                        THEN PopOldest(tile_cache, EvictCount(Len(tile_cache)))
                        ELSE tile_cache
            IN  /\ tile_cache' = StoreLast(kept, key)
                /\ timer_left' = StartTimer(timer_left)
                /\ unseen_age' = IF unseen_age = -1 THEN 0 ELSE unseen_age
    /\ UNCHANGED cache_cleanup_threshold

\* The single-shot timer's timeout (lines 488-491): update() is called and
\* the timer is no longer active.
TimerFires ==
    /\ timer_left = 0
    /\ timer_left' = -1
    /\ unseen_age' = -1
    /\ UNCHANGED <<tile_cache, cache_cleanup_threshold>>

\* A tick passes on the GUI thread's event loop, which delivers a timeout
\* when it is due.
TimePasses ==
    /\ timer_left # 0
    /\ unseen_age >= 0
    /\ timer_left' = IF timer_left > 0 THEN timer_left - 1 ELSE timer_left
    /\ unseen_age' = Min(unseen_age + 1, TileUpdateInterval + 1)
    /\ UNCHANGED <<tile_cache, cache_cleanup_threshold>>

\* _draw_tiles lines 714-720: a cached tile that is drawn becomes the newest.
DrawTile(x) ==
    LET key == <<MapProviderName, MapZoom, x, 0>>
    IN  /\ \E i \in 1..Len(tile_cache) : tile_cache[i] = key
        /\ tile_cache' = StoreLast(tile_cache, key)
        /\ UNCHANGED <<cache_cleanup_threshold, timer_left, unseen_age>>

CacheOthers == UNCHANGED <<regvars, linkvars, qvars, tilevars, msgvars, storevars, lockvars>>

NextCache ==
    \/ (\E z \in {1, 2}, x \in TileColumns, loads \in BOOLEAN :
           OnTileReady(z, x, loads) /\ CacheOthers)
    \/ (\E x \in TileColumns : DrawTile(x) /\ CacheOthers)
    \/ (TimerFires /\ CacheOthers)
    \/ (TimePasses /\ CacheOthers)

SpecCache == InitWith({{}}, 1..MaxThreshold, {<<>>}, {<<>>}) /\ [][NextCache]_vars

\* The cache as n insertions of the tiles of columns 1..n leave it (lines
\* 617-618), for the sizes around the configured ceiling.
FilledCaches ==
    { [i \in 1..n |-> <<MapProviderName, MapZoom, i, 0>>] :
        n \in (DefaultCleanupThreshold - 1)..DefaultCleanupThreshold }

\* The map widget with its default ceiling (line 408) and a cache that has
\* filled up to it.
SpecEvict ==
    InitWith({{}}, {DefaultCleanupThreshold}, {<<>>}, FilledCaches) /\ [][NextCache]_vars

\* ===================================================================
\* _process_message on telemetry messages (mavlink_worker.py lines 359-369)
\* ===================================================================
\* A float field is <<"num", n>> with n counted in units of pi / PiUnits, or
\* one of the values that are not finite; a field the message lacks is
\* <<"missing", 0>>.
PiUnits == 4

AngleSamples ==
    { <<"num", n>> : n \in {-(PiUnits + 1), -PiUnits, 0, PiUnits, PiUnits + 1} }
        \cup {<<"nan", 0>>, <<"inf", 1>>, <<"inf", -1>>, <<"missing", 0>>}

\* lines 361-363, for one angle: hasattr, math.isfinite, abs(..) <= math.pi
AngleOkFiniteOnly(v) == v[1] # "missing" /\ v[1] = "num"
AngleOk(v) ==
    /\ v[1] # "missing"
    /\ v[1] = "num"
    /\ (IF v[2] < 0 THEN -v[2] ELSE v[2]) <= PiUnits

\* lines 359-369
ProcessAttitude(m) ==
    /\ msg_in' = m
    /\ msg_events' = IF AngleOk(m.roll) /\ AngleOk(m.pitch) /\ AngleOk(m.yaw)
                     THEN << <<"attitude", [roll |-> m.roll, pitch |-> m.pitch,
                                            yaw |-> m.yaw]>> >>
                     ELSE <<>>

\* lines 370-381
ProcessVfrHud(m) ==
    LET present == \A f \in {"airspeed", "groundspeed", "alt", "heading"} : m[f][1] # "missing"
        finite == \A f \in {"airspeed", "groundspeed", "alt", "heading"} : m[f][1] = "num"
    IN  /\ msg_in' = m
        /\ msg_events' =
              IF /\ present
                 /\ finite
                 /\ m.airspeed[2] >= 0 /\ m.groundspeed[2] >= 0
                 /\ 0 <= m.heading[2] /\ m.heading[2] <= 360
              THEN << <<"vfr_hud", [airspeed |-> m.airspeed, groundspeed |-> m.groundspeed,
                                    alt |-> m.alt, heading |-> m.heading]>> >>
              ELSE <<>>

NextMessages ==
    \/ (\E m \in { [type |-> "ATTITUDE", roll |-> r, pitch |-> p, yaw |-> y] :
                      r \in AngleSamples, p \in AngleSamples, y \in AngleSamples } :
            ProcessAttitude(m) /\ UNCHANGED <<regvars, linkvars, qvars, tilevars, cachevars, storevars, lockvars>>)
    \* VFR_HUD messages: speeds in m/s, altitude in m, heading in degrees.
    \/ (\E m \in { [type |-> "VFR_HUD", airspeed |-> a, groundspeed |-> g, alt |-> h,
                      heading |-> c] :
                     a \in {<<"num", -1>>, <<"num", 0>>, <<"nan", 0>>, <<"missing", 0>>},
                     g \in {<<"num", -1>>, <<"num", 1>>, <<"inf", 1>>, <<"missing", 0>>},
                     h \in {<<"num", -1>>, <<"num", 0>>, <<"inf", -1>>},
                     c \in {<<"num", -1>>, <<"num", 0>>, <<"num", 359>>, <<"num", 360>>,
                            <<"num", 361>>, <<"nan", 0>>} } :
            ProcessVfrHud(m) /\ UNCHANGED <<regvars, linkvars, qvars, tilevars, cachevars, storevars, lockvars>>)

SpecMessages == InitReg /\ [][NextMessages]_vars

\* ===================================================================
\* PersistentTileCache.cleanup_old_tiles (professional_gcs_map.py lines 131-157)
\* ===================================================================
\* cutoff_time is int(time.time()) - max_age_days * 24 * 3600 and
\* max_size_bytes is max_size_mb * 1024 * 1024, in the units of the rows.
\* Line 139's DELETE opens a transaction (sqlite3's default isolation level),
\* whatever it deletes, and nothing commits before line 154: VACUUM inside a
\* transaction raises OperationalError, the with-block of line 137 rolls the
\* transaction back and line 156 logs the error.
cleanup_old_tiles(cutoff_time, max_size_bytes) ==
    LET RECURSIVE Sum(_)
        Sum(ids) == IF ids = {} THEN 0
                    ELSE LET k == CHOOSE k \in ids : TRUE
                         IN  db_rows[k][2] + Sum(ids \ {k})
        kept == { k \in DOMAIN db_rows : ~(db_rows[k][1] < cutoff_time) }
        total_size == Sum(kept)
        count == Cardinality(kept) \div 4
        oldest == { d \in SUBSET kept :
                      /\ Cardinality(d) = count
                      /\ \A k \in d, r \in kept \ d : db_rows[k][1] <= db_rows[r][1] }
        in_transaction == TRUE
    IN  /\ last_cleanup' = <<cutoff_time, max_size_bytes>>
        /\ \E d \in (IF total_size > max_size_bytes THEN oldest ELSE {{}}) :
              db_rows' = IF in_transaction
                         THEN db_rows
                         ELSE [k \in kept \ d |-> db_rows[k]]

NextStore ==
    \/ (\E cutoff_time \in 0..3, max_size_bytes \in {0, 3, 2 * MaxRows} :
           cleanup_old_tiles(cutoff_time, max_size_bytes)
           /\ UNCHANGED <<regvars, linkvars, qvars, tilevars, cachevars, msgvars, lockvars>>)

\* The table starts with any rows, each a timestamp and a size.
SpecStore ==
    InitWith({{}}, {DefaultCleanupThreshold},
             UNION { [ids -> (0..2) \X (1..2)] : ids \in SUBSET (1..MaxRows) }, {<<>>})
        /\ [][NextStore]_vars

\* ===================================================================
\* The locks of the tile pipeline (professional_gcs_map.py)
\* ===================================================================
\* cache_lock is a QMutex (line 409, not recursive) and lock a threading.Lock
\* (line 168): a thread that asks for one of them waits until no thread
\* holds it, itself included. Each thread is followed from one lock
\* operation to the next: at[t].pc is the part of the code it is in and
\* at[t].wants the lock it is waiting for before it enters that part.

Go(t, p, k, w) ==
    at' = [at EXCEPT ![t] = [pc |-> p, key |-> k, cb |-> @.cb, wants |-> w]]

\* The with-statements of lines 591, 609, 717 (cache_lock) and of lines
\* 243, 259, 356 (lock): the thread gets the lock when no thread holds it.
Acquires(t) ==
    /\ \/ at[t].wants = "cache_lock" /\ cache_lock = "none"
          /\ cache_lock' = t /\ UNCHANGED lock
       \/ at[t].wants = "lock" /\ lock = "none"
          /\ lock' = t /\ UNCHANGED cache_lock
    /\ Go(t, at[t].pc, at[t].key, "none")
    /\ UNCHANGED <<posted, executor, tile_cache, tile_db, download_queue,
                   active_downloads>>

\* tile_ready.emit(...) by thread t, which goes on at next. Line 417 connects
\* the signal with Qt.QueuedConnection: the call of _on_tile_ready is posted
\* to the UI thread's event loop, whichever thread emits. With Qt's default
\* connection type an emit made on the UI thread would call the slot at once.
EmitTileReadyAuto(t, k, next) ==
    IF t = "ui"
    THEN posted' = posted /\ Go(t, "on_tile_ready", k, "cache_lock")
    ELSE posted' = Append(posted, k) /\ Go(t, next, k, "none")
EmitTileReady(t, k, next) ==
    posted' = Append(posted, k) /\ Go(t, next, k, "none")

\* ------------------------------------------------ the UI thread
\* _request_visible_tiles lines 588-591, for one visible tile.
UiRequestVisible(k) ==
    /\ at["ui"].pc = "idle" /\ Len(posted) < MaxPosted
    /\ Go("ui", "visible", k, "cache_lock")
    /\ UNCHANGED <<cache_lock, lock, posted, executor, tile_cache, tile_db,
                   download_queue, active_downloads>>

\* lines 592-593 under cache_lock: a tile that is cached is not requested.
UiRequestChecks ==
    /\ at["ui"].pc = "visible" /\ at["ui"].wants = "none"
    /\ IF \E i \in 1..Len(tile_cache) : tile_cache[i] = at["ui"].key
       THEN cache_lock' = "none" /\ Go("ui", "idle", NoKey, "none")
       ELSE UNCHANGED cache_lock /\ Go("ui", "get_tile", at["ui"].key, "none")
    /\ UNCHANGED <<lock, posted, executor, tile_cache, tile_db, download_queue,
                   active_downloads>>

\* request_tile lines 225-238: the persistent cache gives the tile (it can
\* only give one it holds) and tile_ready is emitted, or it gives None and
\* line 243 asks for lock.
UiGetTile ==
    /\ at["ui"].pc = "get_tile"
    /\ \/ at["ui"].key \in tile_db /\ EmitTileReady("ui", at["ui"].key, "leave")
       \/ posted' = posted /\ Go("ui", "enqueue", at["ui"].key, "lock")
    /\ UNCHANGED <<cache_lock, lock, executor, tile_cache, tile_db, download_queue,
                   active_downloads>>

\* request_tile lines 243-250, under lock.
UiEnqueues ==
    /\ at["ui"].pc = "enqueue" /\ at["ui"].wants = "none"
    /\ LET k == at["ui"].key
           add == /\ k \notin active_downloads
                  /\ \A i \in 1..Len(download_queue) : download_queue[i] # k
       IN  /\ download_queue' = IF add THEN Append(download_queue, k) ELSE download_queue
           /\ active_downloads' = IF add THEN active_downloads \cup {k}
                                   ELSE active_downloads
    /\ lock' = "none"
    /\ Go("ui", "leave", at["ui"].key, "none")
    /\ UNCHANGED <<cache_lock, posted, executor, tile_cache, tile_db>>

\* The end of the with-block of line 591.
UiRequestLeaves ==
    /\ at["ui"].pc = "leave"
    /\ cache_lock' = "none"
    /\ Go("ui", "idle", NoKey, "none")
    /\ UNCHANGED <<lock, posted, executor, tile_cache, tile_db, download_queue,
                   active_downloads>>

\* The event loop calls _on_tile_ready for a posted tile_ready; lines
\* 598-604 return before the lock for another zoom or an image that does
\* not load.
UiDelivers ==
    /\ at["ui"].pc = "idle" /\ posted # <<>>
    /\ posted' = Tail(posted)
    /\ \/ Go("ui", "on_tile_ready", Head(posted), "cache_lock")
       \/ Go("ui", "idle", NoKey, "none")
    /\ UNCHANGED <<cache_lock, lock, executor, tile_cache, tile_db, download_queue,
                   active_downloads>>

\* _on_tile_ready lines 609-618, under cache_lock (the timer of lines
\* 620-622 takes no lock).
UiStoresTile ==
    /\ at["ui"].pc = "on_tile_ready" /\ at["ui"].wants = "none"
    /\ LET kept == IF Len(tile_cache) >= cache_cleanup_threshold
                   THEN PopOldest(tile_cache, EvictCount(Len(tile_cache)))
                   ELSE tile_cache
       IN  tile_cache' = StoreLast(kept, at["ui"].key)
    /\ cache_lock' = "none"
    /\ Go("ui", "idle", NoKey, "none")
    /\ UNCHANGED <<lock, posted, executor, tile_db, download_queue, active_downloads>>

\* paintEvent: _draw_tiles line 717, for one visible tile.
UiPaints(k) ==
    /\ at["ui"].pc = "idle"
    /\ Go("ui", "draw_tiles", k, "cache_lock")
    /\ UNCHANGED <<cache_lock, lock, posted, executor, tile_cache, tile_db,
                   download_queue, active_downloads>>

\* _draw_tiles lines 718-743, under cache_lock.
UiDrawsTile ==
    /\ at["ui"].pc = "draw_tiles" /\ at["ui"].wants = "none"
    /\ tile_cache' = IF \E i \in 1..Len(tile_cache) : tile_cache[i] = at["ui"].key
                     THEN StoreLast(tile_cache, at["ui"].key)
                     ELSE tile_cache
    /\ cache_lock' = "none"
    /\ Go("ui", "idle", NoKey, "none")
    /\ UNCHANGED <<lock, posted, executor, tile_db, download_queue, active_downloads>>

\* ------------------------------------- the thread of run()
\* lines 258-259: the queue is looked at without the lock.
LoopSeesWork ==
    /\ at["loop"].pc = "idle" /\ download_queue # <<>>
    /\ Go("loop", "pop", NoKey, "lock")
    /\ UNCHANGED <<cache_lock, lock, posted, executor, tile_cache, tile_db,
                   download_queue, active_downloads>>

\* lines 260-265, under lock.
LoopPops ==
    /\ at["loop"].pc = "pop" /\ at["loop"].wants = "none"
    /\ IF download_queue # <<>>
       THEN /\ download_queue' = Tail(download_queue)
            /\ Go("loop", "submit", Head(download_queue), "none")
       ELSE /\ UNCHANGED download_queue
            /\ Go("loop", "idle", NoKey, "none")
    /\ lock' = "none"
    /\ UNCHANGED <<cache_lock, posted, executor, tile_cache, tile_db, active_downloads>>

\* line 268: executor.submit(...); the future has no callback yet.
LoopSubmits ==
    /\ at["loop"].pc = "submit"
    /\ executor' = Append(executor, [key |-> at["loop"].key, cb |-> FALSE])
    /\ Go("loop", "add_done_callback", at["loop"].key, "none")
    /\ UNCHANGED <<cache_lock, lock, posted, tile_cache, tile_db, download_queue,
                   active_downloads>>

\* line 269: add_done_callback on a future that has not finished: the
\* worker that finishes it will run _download_complete.
LoopRegisters ==
    /\ at["loop"].pc = "add_done_callback"
    /\ executor' = [i \in 1..Len(executor) |-> [executor[i] EXCEPT !.cb = TRUE]]
    /\ at' = [t \in Threads |->
                IF t = "loop"
                THEN [pc |-> "idle", key |-> NoKey, cb |-> FALSE, wants |-> "none"]
                ELSE [at[t] EXCEPT !.cb = (at[t].pc \in {"fetch", "finish"}) \/ @]]
    /\ UNCHANGED <<cache_lock, lock, posted, tile_cache, tile_db, download_queue,
                   active_downloads>>

\* _download_complete lines 356-358, under lock, on the thread that runs the
\* future's callback.
CompleteUnderLock(t) ==
    /\ at[t].pc = "download_complete" /\ at[t].wants = "none"
    /\ active_downloads' = active_downloads \ {at[t].key}
    /\ lock' = "none"
    /\ at' = [at EXCEPT ![t] = [pc |-> "idle", key |-> NoKey, cb |-> FALSE,
                                 wants |-> "none"]]
    /\ UNCHANGED <<cache_lock, posted, executor, tile_cache, tile_db, download_queue>>

\* ------------------------------------------ the fetch workers
WorkerTakes(w) ==
    /\ at[w].pc = "idle" /\ executor # <<>>
    /\ at' = [at EXCEPT ![w] = [pc |-> "fetch", key |-> Head(executor).key,
                                 cb |-> Head(executor).cb, wants |-> "none"]]
    /\ executor' = Tail(executor)
    /\ UNCHANGED <<cache_lock, lock, posted, tile_cache, tile_db, download_queue,
                   active_downloads>>

\* _download_tile lines 277-318: the tile is fetched, stored (store_tile
\* swallows its failures) and tile_ready is emitted, or the fetch fails.
WorkerFetches(w) ==
    /\ at[w].pc = "fetch"
    /\ \/ /\ Len(posted) < MaxPosted - 1
          /\ tile_db' \in {tile_db \cup {at[w].key}, tile_db}
          /\ EmitTileReady(w, at[w].key, "finish")
       \/ /\ UNCHANGED <<tile_db, posted>>
          /\ Go(w, "finish", at[w].key, "none")
    /\ UNCHANGED <<cache_lock, lock, executor, tile_cache, download_queue,
                   active_downloads>>

\* The future finishes. Its callback runs on this thread when it has been
\* added; otherwise add_done_callback (line 269) finds the future finished
\* and runs _download_complete on the thread of run().
WorkerFinishes(w) ==
    /\ at[w].pc = "finish"
    /\ IF at[w].cb
       THEN Go(w, "download_complete", at[w].key, "lock")
       ELSE at' = [at EXCEPT
                     ![w] = [pc |-> "idle", key |-> NoKey, cb |-> FALSE, wants |-> "none"],
                     !["loop"] = [pc |-> "download_complete", key |-> at[w].key,
                                  cb |-> FALSE, wants |-> "lock"]]
    /\ UNCHANGED <<cache_lock, lock, posted, executor, tile_cache, tile_db,
                   download_queue, active_downloads>>

LockOthers ==
    UNCHANGED <<regvars, linkvars, qvars, msgvars, storevars, tm_running,
                executor_shutdown, run_pc, popped, fetching, completing, fetch_stage,
                req, last_req, tile_ready, cache_cleanup_threshold, timer_left,
                unseen_age>>

\* What one thread can do next.
ThreadStep(t) ==
    \/ Acquires(t)
    \/ t = "ui" /\ (\E k \in TileKeys : UiRequestVisible(k))
    \/ t = "ui" /\ UiRequestChecks
    \/ t = "ui" /\ UiGetTile
    \/ t = "ui" /\ UiEnqueues
    \/ t = "ui" /\ UiRequestLeaves
    \/ t = "ui" /\ UiDelivers
    \/ t = "ui" /\ UiStoresTile
    \/ t = "ui" /\ (\E k \in TileKeys : UiPaints(k))
    \/ t = "ui" /\ UiDrawsTile
    \/ t = "loop" /\ LoopSeesWork
    \/ t = "loop" /\ LoopPops
    \/ t = "loop" /\ LoopSubmits
    \/ t = "loop" /\ LoopRegisters
    \/ CompleteUnderLock(t)
    \/ t \in FetchWorkers /\ WorkerTakes(t)
    \/ t \in FetchWorkers /\ WorkerFetches(t)
    \/ t \in FetchWorkers /\ WorkerFinishes(t)

NextLocks ==
    \/ (\E t \in Threads : Acquires(t) /\ LockOthers)
    \/ (\E k \in TileKeys : UiRequestVisible(k) /\ LockOthers)
    \/ (UiRequestChecks /\ LockOthers)
    \/ (UiGetTile /\ LockOthers)
    \/ (UiEnqueues /\ LockOthers)
    \/ (UiRequestLeaves /\ LockOthers)
    \/ (UiDelivers /\ LockOthers)
    \/ (UiStoresTile /\ LockOthers)
    \/ (\E k \in TileKeys : UiPaints(k) /\ LockOthers)
    \/ (UiDrawsTile /\ LockOthers)
    \/ (LoopSeesWork /\ LockOthers)
    \/ (LoopPops /\ LockOthers)
    \/ (LoopSubmits /\ LockOthers)
    \/ (LoopRegisters /\ LockOthers)
    \/ (\E t \in Threads : CompleteUnderLock(t) /\ LockOthers)
    \/ (\E w \in FetchWorkers : WorkerTakes(w) /\ LockOthers)
    \/ (\E w \in FetchWorkers : WorkerFetches(w) /\ LockOthers)
    \/ (\E w \in FetchWorkers : WorkerFinishes(w) /\ LockOthers)

SpecLocks ==
    InitWith(SUBSET TileKeys, {DefaultCleanupThreshold}, {<<>>}, {<<>>})
        /\ [][NextLocks]_vars

\* ===================================================================
\* Properties of the registry
\* ===================================================================

\* C1: the registry never holds more than max_drones vehicles, and a
\* can_add_drone() call returns true exactly when the count is below
\* max_drones and changes nothing of the registry.
CapacityInvariant ==
    /\ [](Cardinality(DOMAIN drones) <= max_drones)
    /\ [][last_call' = "can_add_drone" =>
            /\ ret' = RetBool(Cardinality(DOMAIN drones) < max_drones)
            /\ UNCHANGED <<drones, next_drone_number, workers, retired>>]_vars

CapacityWitness ==
    /\ last_call = "can_add_drone"
    /\ Cardinality(DOMAIN drones) = max_drones
    /\ ret = RetBool(FALSE)

\* C2: add_drone succeeds (returns the next identifier and registers one
\* more vehicle) exactly while fewer than max_drones are registered, so
\* max_drones times in a row from the empty registry; at capacity it returns
\* None and the vehicle map, every record and the identifier counter stay
\* as they were.
AddRejectedAtCapacity ==
    [][last_call' = "add_drone" =>
        IF Cardinality(DOMAIN drones) < max_drones
        THEN /\ ret' = RetId(next_drone_number)
             /\ DOMAIN drones' = DOMAIN drones \cup {next_drone_number}
             /\ Cardinality(DOMAIN drones') = Cardinality(DOMAIN drones) + 1
        ELSE /\ ret' = RetNone
             /\ UNCHANGED <<drones, next_drone_number, workers>>]_vars

\* max_drones adds in a row from the empty registry, then the rejected one.
AddRejectedWitness ==
    /\ last_call = "add_drone"
    /\ ret = RetNone
    /\ DOMAIN drones = 1..max_drones
    /\ next_drone_number = max_drones + 1

\* C4: the registry's connected flag of a vehicle turns true only in the
\* step that polls the link's "Connected" status event; connect_drone does
\* not set it.
ConnectedOnlyAfterEvent ==
    [][\A id \in DOMAIN drones \cap DOMAIN drones' :
          (~drones[id].connected /\ drones'[id].connected) =>
              /\ last_call' = "update_ui"
              /\ \E i \in 1..Len(workers[id].out_queue) :
                    workers[id].out_queue[i] = EvConnected]_vars

\* C16: for every registered vehicle and every category, also those the
\* vehicle record is created with, update_telemetry(id, category, fields)
\* returns having merged fields into the stored record: every key of fields
\* has its new value, every other stored key its old value, and the other
\* categories and vehicles are unchanged.
TelemetryMerged ==
    [][(last_call' = "update_telemetry")
       => /\ ret' = RetNone
          /\ \E id \in DroneNumbers, t \in RegTelemetryInputs :
               IF id \notin DOMAIN drones
               THEN UNCHANGED drones
               ELSE LET c == t[1]
                        f == t[2]
                        old == drones[id].telemetry
                        new == drones'[id].telemetry
                        oldkeys == IF c \in DOMAIN old THEN DOMAIN old[c].d ELSE {}
                    IN  /\ DOMAIN drones' = DOMAIN drones
                        /\ \A o \in DOMAIN drones \ {id} : drones'[o] = drones[o]
                        /\ DOMAIN new = DOMAIN old \cup {c}
                        /\ \A o \in DOMAIN old \ {c} : new[o] = old[o]
                        /\ new[c].isdict
                        /\ DOMAIN new[c].d = oldkeys \cup DOMAIN f
                        /\ \A k \in DOMAIN f : new[c].d[k] = f[k]
                        /\ \A k \in oldkeys \ DOMAIN f : new[c].d[k] = old[c].d[k]]_vars

\* ===================================================================
\* Properties of one link
\* ===================================================================

\* C3: in every reachable state of a link, is_connected() = false implies
\* is_armed() = false, whatever connect, disconnect, heartbeats, heartbeat
\* timeout, receive error and stop led there.
DisconnectedNeverArmed == ~connected => ~is_armed

\* C5: when the watchdog looks at a connected link whose last processed
\* heartbeat is older than HEARTBEAT_TIMEOUT, connected turns false and the
\* queue gets exactly the heartbeat-timeout error immediately followed by
\* status "Disconnected"; no step of a link that is not connected puts a
\* heartbeat-timeout error on the queue, so no second pair follows while the
\* link stays disconnected.
HeartbeatTimeoutOnce ==
    [][LET appended == IF Len(out_queue') >= Len(out_queue)
                        THEN SubSeq(out_queue', Len(out_queue) + 1, Len(out_queue'))
                        ELSE <<>>
       IN  /\ ( /\ pc = "hb" /\ pc' = "recv"
                /\ conn /\ check_elapsed > HEARTBEAT_CHECK_INTERVAL_SEC
                /\ connected /\ hb_elapsed > HEARTBEAT_TIMEOUT )
              => ( /\ ~connected'
                   /\ out_queue' = out_queue \o <<EvHbTimeout, EvDisconnected>> )
           /\ ~connected => (\A i \in DOMAIN appended : appended[i] # EvHbTimeout)
           /\ (\E i \in DOMAIN appended : appended[i] = EvHbTimeout)
              => (connected /\ ~connected' /\ hb_elapsed > HEARTBEAT_TIMEOUT)]_vars

HeartbeatTimeoutWitness ==
    /\ pc = "recv" /\ conn /\ ~connected
    /\ Len(out_queue) >= 2
    /\ SubSeq(out_queue, Len(out_queue) - 1, Len(out_queue)) = <<EvHbTimeout, EvDisconnected>>

\* C6: an arm/disarm whose acknowledgment wait timed out does not disconnect
\* the link: with a vehicle that has sent its heartbeats on time since the
\* link connected, the watchdog step after the ack-timeout error leaves
\* connected true and puts nothing on the queue.
AckTimeoutKeepsLink ==
    [][( /\ pc = "hb" /\ pc' = "recv"
         /\ ack_result[1] = "timeout"
         /\ connected /\ veh_alive /\ veh_timely )
       => (connected' /\ out_queue' = out_queue)]_vars

DisconnectIdempotent ==
    [][(pc = "cmd" /\ pc' = "hb" /\ cur'[1] = "disconnect")
       => ( /\ ~conn' /\ ~connected'
            /\ cmd_events' \in {<<EvDisconnected>>, <<EvCloseError, EvDisconnected>>}
            /\ out_queue' = out_queue \o cmd_events'
            /\ (~conn => cmd_events' = <<EvDisconnected>>)
            /\ UNCHANGED <<is_armed, device, running, rx>>
            /\ (~conn /\ ~connected) => UNCHANGED <<conn, connected>> )]_vars

DisconnectTwiceWitness ==
    /\ pc = "hb" /\ cur = <<"disconnect", FALSE, FALSE>>
    /\ cmd_events = <<EvDisconnected>>
    /\ ~conn /\ ~connected /\ stop_pc = "none" /\ device # ""

\* C9: a connect request processed by the link first appends a "Connecting"
\* status and then has exactly one of two outcomes: status "Connected" with
\* connected true, or an error with connected and the connection as they
\* were before the request.
ConnectTwoOutcomes ==
    (pc = "hb" /\ cur[1] = "connect" /\ stop_pc = "none")
    => \/ cmd_events = <<EvConnecting, EvConnected>> /\ connected
       \/ /\ cmd_events = <<EvConnecting, EvConnFailed>>
          /\ conn = cur[2]
          /\ connected = cur[3]

\* C10: an arm/disarm request sends a command to the vehicle only if the
\* link is connected when the request is processed; otherwise it appends an
\* error event and sends nothing.
ArmSendsOnlyIfConnected ==
    [][(pc = "cmd" /\ pc' # "cmd" /\ cur'[1] \in ArmRequests /\ ~connected)
       => (tx' = <<>> /\ cmd_events' = <<EvNotConnected>>)]_vars

\* C17: stop() does not return until the background loop has terminated,
\* and after it has returned the loop thread opens no connection and sends
\* nothing on one.
StopJoinsLoop ==
    /\ [](stop_pc = "done" => pc \in {"idle", "dead"})
    /\ [][stop_pc = "done" => (conn' = conn /\ tx' = tx)]_vars

\* C18: every transport failure (a failed connect, a failed receive, a failed
\* send of arm/disarm, set-mode, mission-start or abort-land) appends exactly
\* one error event and leaves the link disconnected (seen where the loop
\* goes on after the failure).
TransportFailureDisconnects ==
    [][LET appended == IF Len(out_queue') >= Len(out_queue)
                        THEN SubSeq(out_queue', Len(out_queue) + 1, Len(out_queue'))
                        ELSE <<>>
           TransportErrors == {EvConnFailed, EvRecvError, EvSendFailed}
                                  \cup { FailedOf(c) : c \in SendRequests }
       IN  (pc' # "dead" /\ \E i \in DOMAIN appended : appended[i] \in TransportErrors)
           => ( /\ ~connected'
                /\ Cardinality({i \in DOMAIN appended : appended[i][1] = "error"}) = 1 )]_vars

\* C19: no failing connection operation ends the background loop: the thread
\* of run() is over only once stop() has been called.
LoopEndsOnlyByStop == (pc = "dead") => (stop_pc = "done")

\* ===================================================================
\* Properties of get_updates
\* ===================================================================

\* C11: get_updates returns, without waiting, the events put since the
\* previous call in the order they were put and returns when it has found
\* the queue empty; however the puts of the link thread interleave with the
\* consumer's calls, what was returned, what the call under way holds and
\* what is still queued are together exactly what was put, in that order:
\* every event is delivered once and in production order.
DeliveredOnceInOrder ==
    /\ [](delivered \o gu_updates \o out_queue = produced)
    /\ [][(gu_pc = "loop" /\ gu_pc' = "return")
          => (out_queue = <<>> /\ UNCHANGED <<out_queue, gu_updates>>)]_vars
    /\ [][(gu_pc = "return" /\ gu_pc' = "idle")
          => (delivered' = delivered \o gu_updates /\ UNCHANGED out_queue)]_vars

DeliveredWitness ==
    /\ gu_pc = "idle" /\ out_queue = <<>>
    /\ Len(delivered) >= 3
    /\ delivered = produced
    /\ delivered[1] # delivered[2]

\* ===================================================================
\* Properties of the tile download manager
\* ===================================================================

\* C12: for every tile key at most one fetch is queued or in flight at any
\* time; a request_tile for a key already in the queue or in the in-flight
\* set enqueues nothing, so two requests before the first completes give one
\* fetch.
OneFetchPerKey ==
    /\ [](\A k \in TileKeys :
            Cardinality({ i \in 1..Len(download_queue) : download_queue[i] = k })
              + (IF popped = k THEN 1 ELSE 0) + fetching[k] + completing[k] <= 1)
    /\ [][(req # NoKey /\ req' = NoKey /\ (req \in active_downloads \/ req \in QueueKeys))
          => UNCHANGED <<download_queue, active_downloads, fetching>>]_vars

OneFetchWitness ==
    \E k \in TileKeys :
      /\ last_req = [key |-> k, lookup |-> "None", emits |-> 0, enqueued |-> FALSE]
      /\ fetching[k] = 1 /\ req = NoKey

\* C13: no key stays in the in-flight set forever: a key in it is still
\* queued, held by run() for submission, or owned by a fetch whose done-
\* callback will remove it, also when the fetch could not be submitted to the
\* worker pool.
InFlightHasOwner ==
    \A k \in active_downloads :
        k \in QueueKeys \/ popped = k \/ fetching[k] > 0 \/ completing[k] > 0

\* C14 as stated: request_tile for a key present in the persistent cache
\* emits one tile-ready notification and returns without queueing the key.
CachedTileNeverFetched ==
    [][\A k \in TileKeys :
         (req = NoKey /\ k \in tile_db /\ (req' = k \/ (last_req' # last_req /\ last_req'.key = k)))
         => ( /\ req' = NoKey
              /\ last_req' = [key |-> k, lookup |-> "hit", emits |-> 1, enqueued |-> FALSE] )]_vars

\* C14, amended: a request_tile whose cache lookup returns a tile emits exactly
\* one tile-ready notification and returns without touching the queue or the
\* in-flight set; one whose lookup returns nothing (no row, a row that does
\* not load, a read that failed) emits nothing itself and queues the key
\* unless it is already queued or in flight.
CacheHitNeverFetched ==
    [][/\ (req = NoKey /\ req' = NoKey /\ last_req' # last_req)
          => ( /\ last_req'.lookup = "hit" /\ last_req'.emits = 1 /\ ~last_req'.enqueued
               /\ last_req'.key \in tile_db
               /\ tile_ready' = <<last_req'.key, "cache">>
               /\ UNCHANGED <<download_queue, active_downloads, fetching>> )
       /\ (req # NoKey /\ req' = NoKey)
          => ( /\ UNCHANGED tile_ready
               /\ last_req'.key = req /\ last_req'.emits = 0
               /\ IF req \in active_downloads \/ req \in QueueKeys
                  THEN ~last_req'.enqueued /\ UNCHANGED <<download_queue, active_downloads>>
                  ELSE /\ last_req'.enqueued
                       /\ download_queue' = Append(download_queue, req)
                       /\ active_downloads' = active_downloads \cup {req} )]_vars

CacheHitWitness ==
    /\ last_req.lookup = "hit" /\ req = NoKey
    /\ tile_ready = <<last_req.key, "cache">>
    /\ download_queue = <<>> /\ active_downloads = {}
    /\ \A k \in TileKeys : fetching[k] = 0

\* ===================================================================
\* Properties of the in-memory tile cache
\* ===================================================================

\* C15: for every positive cache_cleanup_threshold, whatever tiles become
\* ready, the in-memory cache never holds more than cache_cleanup_threshold
\* entries once an insert has triggered the eviction pass.
CacheWithinThreshold == Len(tile_cache) <= cache_cleanup_threshold

\* ===================================================================
\* Properties of message processing
\* ===================================================================

\* C20: every attitude event carries roll, pitch and yaw that are finite and
\* of magnitude at most pi, and an ATTITUDE message with an angle that is
\* missing, not finite or beyond pi in magnitude produces no attitude event;
\* a message whose three angles are in range produces the event with them.
AttitudeInRange ==
    LET InRange(v) == v[1] = "num" /\ -PiUnits <= v[2] /\ v[2] <= PiUnits
        Good(m) == InRange(m.roll) /\ InRange(m.pitch) /\ InRange(m.yaw)
    IN  /\ \A i \in DOMAIN msg_events :
              msg_events[i][1] = "attitude" => Good(msg_events[i][2])
        /\ msg_in.type = "ATTITUDE" =>
              IF Good(msg_in)
              THEN msg_events = <<<<"attitude", [roll |-> msg_in.roll, pitch |-> msg_in.pitch,
                                                 yaw |-> msg_in.yaw]>>>>
              ELSE msg_events = <<>>

AttitudeWitness ==
    /\ msg_in.type = "ATTITUDE" /\ msg_in.roll = <<"num", PiUnits>> /\ msg_in.yaw = <<"num", -PiUnits>>
    /\ Len(msg_events) = 1

\* C21: a vfr_hud event is emitted only for a VFR_HUD message whose airspeed,
\* groundspeed, altitude and heading are finite, whose airspeed and
\* groundspeed are not negative and whose heading lies in [0, 360); every
\* other VFR_HUD message produces no vfr_hud event.
VfrHudInRange ==
    LET Finite(v) == v[1] = "num"
        Good(m) == /\ Finite(m.airspeed) /\ Finite(m.groundspeed)
                   /\ Finite(m.alt) /\ Finite(m.heading)
                   /\ m.airspeed[2] >= 0 /\ m.groundspeed[2] >= 0
                   /\ 0 <= m.heading[2] /\ m.heading[2] < 360
    IN  (msg_in.type = "VFR_HUD" /\ ~Good(msg_in)) =>
            \A i \in DOMAIN msg_events : msg_events[i][1] # "vfr_hud"

\* C22: remove_drone on a registered id removes exactly that id, after
\* requesting disconnect when the record is connected and stopping its
\* worker, and leaves every other record as it was; on an unknown id it
\* returns False and changes nothing.
RemoveExactlyOne ==
    [][last_call' = "remove_drone" =>
          \/ /\ ret' = RetBool(FALSE)
             /\ UNCHANGED <<drones, workers, retired, next_drone_number>>
          \/ /\ ret' = RetBool(TRUE)
             /\ \E id \in DOMAIN drones :
                   /\ DOMAIN drones' = DOMAIN drones \ {id}
                   /\ DOMAIN workers' = DOMAIN workers \ {id}
                   /\ \A o \in DOMAIN drones' :
                         drones'[o] = drones[o] /\ workers'[o] = workers[o]
                   /\ ~retired'.alive /\ ~retired'.conn /\ ~retired'.connected
                   /\ retired'.control_queue =
                         IF drones[id].connected
                         THEN Append(workers[id].control_queue, "disconnect")
                         ELSE workers[id].control_queue
             /\ UNCHANGED next_drone_number]_vars

RemoveWitness ==
    /\ last_call = "remove_drone" /\ ret = RetBool(TRUE)
    /\ DOMAIN drones # {}
    /\ Len(retired.control_queue) > 0
    /\ retired.control_queue[Len(retired.control_queue)] = "disconnect"

\* C23: send_command with a name that is not one of the link's commands
\* (arm_disarm, force_arm, set_mode, mission_start, abort_land) raises no
\* exception, invokes nothing on the link and leaves link and registry as
\* they were; so does send_command with an unknown id. Hence a send_command
\* that changes anything has queued one of the five commands on one link.
UnknownCommandNoEffect ==
    [][last_call' = "send_command" =>
          /\ ret' = RetNone
          /\ UNCHANGED <<drones, next_drone_number, retired>>
          /\ \/ UNCHANGED workers
             \/ \E id \in DOMAIN workers, c \in ArmRequests \cup SendRequests :
                   workers' = [workers EXCEPT ![id].control_queue = Append(@, c)]]_vars

\* C24: a link holds at most one open connection: whenever _do_connect
\* opens a new connection, every connection it opened earlier has been
\* closed. A connection is closed only by _do_disconnect and by the except
\* clause of _do_connect, which both clear self._conn, so at the moment of
\* opening self._conn must hold no connection.
OneOpenConnection ==
    [][(pc = "c_open" /\ pc' = "c_wait") => ~conn]_vars

\* C25: cleanup_old_tiles deletes every row whose timestamp is older than
\* the age bound; then, only if the sizes of the rows that remain add up to
\* more than the size bound, it deletes the oldest quarter (count \div 4) of
\* them by timestamp; every other row is left as it was.
CleanupDeletesOld ==
    [][last_cleanup' # last_cleanup =>
          LET RECURSIVE Total(_)
              Total(ids) == IF ids = {} THEN 0
                            ELSE LET k == CHOOSE k \in ids : TRUE
                                 IN  db_rows[k][2] + Total(ids \ {k})
              young == { k \in DOMAIN db_rows : db_rows[k][1] >= last_cleanup'[1] }
          IN  \E gone \in SUBSET young :
                 /\ db_rows' = [k \in young \ gone |-> db_rows[k]]
                 /\ IF Total(young) > last_cleanup'[2]
                    THEN /\ Cardinality(gone) = Cardinality(young) \div 4
                         /\ \A k \in gone, r \in young \ gone : db_rows[k][1] <= db_rows[r][1]
                    ELSE gone = {}]_vars

\* C26: a persistent store that is busy or fails propagates no error. A
\* request_tile whose get_tile failed on a stored row takes the miss path: it
\* emits nothing and leaves the key queued or in flight. A fetch that got
\* its bytes returns only by emitting tile-ready, whatever store_tile did: a
\* _download_tile returns without emitting only when the fetch itself failed.
StoreFailureSwallowed ==
    [][/\ (req \in tile_db /\ req' = NoKey) =>
             /\ req \in active_downloads' \/ req \in QueueKeys'
             /\ last_req'.key = req /\ last_req'.emits = 0
             /\ UNCHANGED tile_ready
       /\ \A k \in TileKeys :
             fetching'[k] < fetching[k] =>
                \/ fetch_stage[k] = "get" /\ UNCHANGED <<tile_ready, tile_db>>
                \/ fetch_stage[k] = "emit" /\ tile_ready' = <<k, "download">>]_vars

StoreFailureWitness ==
    \E k \in TileKeys :
        /\ tile_ready = <<k, "download">> /\ k \notin tile_db
        /\ last_req.key \in tile_db /\ last_req.lookup = "None" /\ last_req.enqueued

\* C29 as stated: whenever a fetch emits tile-ready for a key, the bytes of
\* that key are in the persistent cache.
StoredBeforeReady ==
    [][\A k \in TileKeys :
          (fetching'[k] < fetching[k] /\ tile_ready' = <<k, "download">>) =>
              k \in tile_db]_vars

\* C29, amended: a fetch emits tile-ready only after its store_tile call has
\* returned (the bytes are then in the cache unless the store failed); the
\* key leaves active_downloads only after _download_tile has returned, hence
\* after both; a fetch that fails emits nothing and stores nothing.
StoreCalledBeforeReady ==
    [][\A k \in TileKeys :
          /\ (tile_ready' # tile_ready /\ tile_ready' = <<k, "download">>) =>
                fetch_stage[k] = "emit" /\ fetching[k] > 0
          /\ (fetch_stage[k] = "store" /\ fetch_stage'[k] # "store") =>
                fetch_stage'[k] = "emit" /\ UNCHANGED <<tile_ready, fetching>>
          /\ (k \in active_downloads /\ k \notin active_downloads') =>
                completing[k] > 0 /\ UNCHANGED <<fetching, tile_ready>>
          /\ (fetching'[k] < fetching[k] /\ fetch_stage[k] = "get") =>
                UNCHANGED <<tile_ready, tile_db>>]_vars

ReadyAfterStoreWitness ==
    \E k \in TileKeys :
        /\ tile_ready = <<k, "download">> /\ k \in tile_db
        /\ completing[k] = 0 /\ fetching[k] = 0 /\ k \notin active_downloads
        /\ last_req.key = k /\ last_req.enqueued

\* C27: connect_drone, disconnect_drone and a polled "Disconnected" status
\* leave the telemetry a vehicle has gathered as it is: connect_drone and
\* disconnect_drone change nothing of a record but connected and armed
\* (connect_drone not even armed), and a poll changes no telemetry category
\* but the status and error texts it stores, and removes none.
TelemetryKeptOnDisconnect ==
    [][\A id \in DOMAIN drones \cap DOMAIN drones' :
          /\ last_call' \in {"connect_drone", "disconnect_drone"} =>
                /\ [drones'[id] EXCEPT !.connected = FALSE, !.armed = FALSE]
                      = [drones[id] EXCEPT !.connected = FALSE, !.armed = FALSE]
                /\ last_call' = "connect_drone" => drones'[id].armed = drones[id].armed
          /\ last_call' = "update_ui" =>
                /\ DOMAIN drones[id].telemetry \subseteq DOMAIN drones'[id].telemetry
                /\ \A c \in DOMAIN drones[id].telemetry \ {"status_message", "error_message"} :
                      drones'[id].telemetry[c] = drones[id].telemetry[c]]_vars

TelemetryKeptWitness ==
    \E id \in DOMAIN drones :
        /\ last_call = "update_ui"
        /\ "status" \in DOMAIN drones[id].telemetry
        /\ drones[id].telemetry["status"].d["armed"]
        /\ "status_message" \in DOMAIN drones[id].telemetry
        /\ drones[id].telemetry["status_message"].d["text"] = "Disconnected"
        /\ ~drones[id].connected /\ ~drones[id].armed

\* C28: add_drone takes identifiers from a strictly increasing counter: the
\* identifier it returns is the counter's value, which is above every
\* identifier handed out before (registered still or removed since), and the
\* counter then moves up by one; a rejected add_drone, and every other call,
\* leaves the counter alone.
IdentifiersNeverReused ==
    /\ [](\A id \in DOMAIN drones : id < next_drone_number)
    /\ [][IF last_call' = "add_drone" /\ ret' # RetNone
          THEN /\ ret' = RetId(next_drone_number)
               /\ next_drone_number' = next_drone_number + 1
               /\ DOMAIN drones' = DOMAIN drones \cup {next_drone_number}
               /\ next_drone_number \notin DOMAIN drones
          ELSE /\ UNCHANGED next_drone_number
               /\ DOMAIN drones' \subseteq DOMAIN drones]_vars

IdentifiersWitness ==
    /\ last_call = "add_drone" /\ ret = RetId(3)
    /\ DOMAIN drones = {2, 3}

\* C30: tile-ready notifications are coalesced: an insert made while the
\* single-shot timer is active schedules nothing (the timer keeps its due
\* time), and every insert into the in-memory cache is followed by the
\* timer's update() no later than one interval after it.
WakeupCoalesced ==
    /\ [](/\ unseen_age <= TileUpdateInterval
          /\ unseen_age >= 0 => (timer_left >= 0 /\ unseen_age + timer_left <= TileUpdateInterval))
    /\ [][(timer_left >= 0 /\ tile_cache' # tile_cache) => timer_left' = timer_left]_vars

WakeupWitness ==
    /\ unseen_age = TileUpdateInterval /\ timer_left = 0
    /\ Len(tile_cache) >= 2

\* C31: an insertion that finds the cache at the ceiling removes the
\* least-recently-used quarter of the entries (Len \div 4 of them, one less
\* when the inserted key was among them and is stored again).
EvictsQuarter ==
    [][LET n == Len(tile_cache)
           before == {tile_cache[i] : i \in 1..n}
           after == {tile_cache'[i] : i \in 1..Len(tile_cache')}
       IN  (n >= cache_cleanup_threshold /\ after # before)
               => Cardinality(before \ after) \in {n \div 4 - 1, n \div 4}]_vars

\* C32: the arm/disarm command a request sends disarms when the last known
\* armed state is true and arms otherwise, and it carries the bypass magic
\* value exactly when the request was made with force.
ForceCarriesMagic ==
    [][(pc = "cmd" /\ pc' = "a_wait")
          => /\ tx'[1][2] = (IF is_armed THEN 0 ELSE 1)
             /\ (cur'[1] = "force_arm") <=> (tx'[1][3] = FORCE_ARM_MAGIC)]_vars

\* C33: the turn of run() in which the heartbeat check has just disconnected
\* the link (its two events are the newest on the queue) reads no inbound
\* message and leaves the armed flag as it was.
StopsAfterHeartbeatTimeout ==
    [][(/\ pc = "recv" /\ pc' = "sleep"
        /\ conn /\ ~connected
        /\ Len(out_queue) >= 2
        /\ SubSeq(out_queue, Len(out_queue) - 1, Len(out_queue))
              = <<EvHbTimeout, EvDisconnected>>)
          => (rx' = rx /\ is_armed' = is_armed)]_vars

\* C34: when a cleanup_old_tiles call has returned (it raises nothing: line
\* 155 catches every exception), the sizes of the rows left in the table add
\* up to at most the size bound of the call.
CleanupWithinSizeBound ==
    [][last_cleanup' # last_cleanup =>
          LET RECURSIVE Left(_)
              Left(ids) == IF ids = {} THEN 0
                           ELSE LET k == CHOOSE k \in ids : TRUE
                                IN  db_rows'[k][2] + Left(ids \ {k})
          IN  Left(DOMAIN db_rows') <= last_cleanup'[2]]_vars

\* C35: whenever a registered vehicle's link is quiescent (no request is
\* queued or being executed and every event it produced has been polled and
\* handled), the registry's connected flag equals the link's is_connected().
QuiescentFlagsAgree ==
    \A id \in DOMAIN drones :
        (workers[id].control_queue = <<>> /\ workers[id].out_queue = <<>>)
            => drones[id].connected = workers[id].connected

\* C36: in every reachable state of a link, whatever the interleaving of
\* run() with the caller's calls, a link that is connected holds a
\* connection object.
ConnectedHoldsConnection == connected => conn

\* C37: once stop() has been called and the loop of run() has terminated,
\* the link is disconnected and holds no connection, whatever run() was doing
\* when stop() arrived.
StoppedLinkIsClosed ==
    (stop_pc = "done" /\ pc = "dead") => (~connected /\ ~conn)

\* C38: while the registry holds no more vehicles than the palette has
\* colors, any two vehicles registered at the same time have different
\* colors.
ColorsDistinct ==
    get_drone_count <= NumColors
        => \A a, b \in DOMAIN drones : a # b => drones[a].color # drones[b].color

\* C39: the tile pipeline is deadlock-free. The thread a waiting thread
\* waits for is the holder of the lock it asks for; no thread waits in a
\* chain that never reaches a thread able to run (a cycle, or a thread
\* waiting for a lock it holds itself), and every thread that holds a lock
\* and is not waiting can take its next step.
TilePipelineDeadlockFree ==
    LET WaitsFor(t) ==
            IF at[t].wants = "cache_lock" THEN cache_lock
            ELSE IF at[t].wants = "lock" THEN lock
            ELSE "none"
        RECURSIVE Blocked(_, _)
        Blocked(t, n) ==
            IF WaitsFor(t) = "none" THEN FALSE
            ELSE IF n = 0 THEN TRUE
            ELSE Blocked(WaitsFor(t), n - 1)
    IN  \A t \in Threads :
            /\ ~Blocked(t, Cardinality(Threads))
            /\ ((cache_lock = t \/ lock = t) /\ WaitsFor(t) = "none")
                  => ENABLED ThreadStep(t)

\* The UI thread, holding cache_lock inside request_tile, waits for the
\* download lock while a fetch worker holds it; the thread of run() waits
\* for that lock too, and a tile_ready call is queued for the UI thread.
DeadlockFreeWitness ==
    /\ at["ui"].wants = "lock" /\ cache_lock = "ui" /\ lock \in FetchWorkers
    /\ at["loop"].wants = "lock"
    /\ posted # <<>>

====
